---- MODULE Spec2Model ----
\* The hats-agent component of Lay3rLabs/wavs-hats: the LLM chat-completion
\* client (llm.rs), the tool catalog and executor (tools.rs) and the
\* conversation loop of Component::run (lib.rs).
\*
\* Conventions.
\*   Option<T>        a sequence of length 0 (None) or 1 (Some(x)).
\*   Result<T,String> [ok |-> TRUE, v |-> x] or [ok |-> FALSE, e |-> text].
\*   &str model name  a sequence of one-character strings, so that trim() and
\*                    the exact match on "gpt-4" are computed, not assumed.
\*   other Strings    TLA+ strings, concatenated with \o as format!() does.
\*   JSON text        its parse tree, one-field records; an object is the
\*                    ordered list of its <<key, value>> members.
EXTENDS Integers, Sequences, FiniteSets, TLC

VARIABLES
    env,            \* process environment: variable name -> Option<value>
    client,         \* Option<LLMClient>
    sent,           \* every HTTP request handed to Client::send, in order
    inflight,       \* the requests sent and not yet answered
    received,       \* every reply an await of run has yielded, in order
    pc,             \* position of Component::run
    trigger,        \* the TriggerAction's data handed to run
    trigger_info,   \* Option<DataWithId> decoded from the trigger
    messages,       \* run's initial message list
    response,       \* Option<Message>: the first round's response
    tool_calls,     \* the tool calls taken out of the first response
    tool_messages,  \* process_tool_calls' follow-up message list
    next_call,      \* index of the next tool call of the for loop
    executed,       \* the tool calls handed to execute_tool_call, in order
    result,         \* Option<String>: the value of run's async block
    ret,            \* Option<Result<Option<Vec<u8>>, String>>: run's return
    steps,          \* how many steps run has taken
    hpc,            \* position of the client-API caller
    hcall,          \* Option: the last client-API call and its arguments
    hreply,         \* Option: the reply the last chat_completion call got
    hret            \* Option<Result>: what the last client-API call returned

vars == <<env, client, sent, inflight, received, pc, trigger, trigger_info, messages,
          response, tool_calls, tool_messages, next_call, executed, result,
          ret, steps, hpc, hcall, hreply, hret>>

loopVars == <<pc, trigger, trigger_info, messages, response, tool_calls,
              tool_messages, next_call, executed, result, ret, steps>>

harnessVars == <<hpc, hcall, hreply, hret>>

-----------------------------------------------------------------------------
\* Bounds of the model.

\* longest whitespace-only model name tried
MaxBlankLen == 2
\* most tool calls in one model response
MaxToolCalls == 2
\* most chat_completion calls the client-API caller makes
MaxRequests == 2
\* largest absolute value of the calculator operands tried
MaxOperand == 3

-----------------------------------------------------------------------------
\* Option and Result.

None == <<>>
Some(x) == <<x>>
IsSome(o) == o # <<>>
Unwrap(o) == o[1]
UnwrapOr(o, d) == IF o = <<>> THEN d ELSE o[1]

Ok(x) == [ok |-> TRUE, v |-> x]
Err(e) == [ok |-> FALSE, e |-> e]

-----------------------------------------------------------------------------
\* Error (llm.rs): the variants and their Display text.

ErrorVariants == {"EmptyModelName", "EmptyMessages", "InvalidProvider"}

ErrorDisplay(variant) ==
    CASE variant = "EmptyModelName" -> "Model name cannot be empty"
      [] variant = "EmptyMessages" -> "Messages cannot be empty"
      [] variant = "InvalidProvider" -> "Invalid provider configuration"

-----------------------------------------------------------------------------
\* Strings as character sequences: str::trim and str::is_empty.

GPT4 == <<"g", "p", "t", "-", "4">>
GPT35 == <<"g", "p", "t", "-", "3", ".", "5", "-", "t", "u", "r", "b", "o">>
LLAMA32 == <<"l", "l", "a", "m", "a", "3", ".", "2">>

IsWhitespace(c) == c \in {" ", "\t", "\n", "\r"}

RECURSIVE TrimStart(_)
TrimStart(s) ==
    IF s # <<>> /\ IsWhitespace(Head(s)) THEN TrimStart(Tail(s)) ELSE s

RECURSIVE TrimEnd(_)
TrimEnd(s) ==
    IF s # <<>> /\ IsWhitespace(s[Len(s)])
    THEN TrimEnd(SubSeq(s, 1, Len(s) - 1))
    ELSE s

trim(s) == TrimEnd(TrimStart(s))

is_empty(s) == Len(s) = 0

-----------------------------------------------------------------------------
\* The process environment and std::env::var.

OPENAI_KEY_VAR == "WAVS_ENV_OPENAI_API_KEY"
OLLAMA_URL_VAR == "WAVS_ENV_OLLAMA_API_URL"

\* An environment value is [unicode |-> BOOLEAN, s |-> text].
UnicodeValue(s) == [unicode |-> TRUE, s |-> s]
NotUnicodeValue == [unicode |-> FALSE, s |-> "\\xff"]

env_var(name, e) ==
    IF e[name] = None THEN Err("environment variable not found")
    ELSE IF ~Unwrap(e[name]).unicode
         THEN Err("environment variable was not valid unicode: "
                  \o Unwrap(e[name]).s)
         ELSE Ok(Unwrap(e[name]).s)

get_required_var(name, e) ==
    LET r == env_var(name, e)
    IN  IF r.ok THEN r
        ELSE Err("Missing required variable " \o name \o ": " \o r.e)

-----------------------------------------------------------------------------
\* LLMClient::new.

OPENAI_URL == "https://api.openai.com/v1/chat/completions"
OLLAMA_DEFAULT_BASE == "http://localhost:11434"

\* Faulty variant: the name is trimmed before the match.
IsOpenAIModelTrimmed(model) == trim(model) \in {GPT35, GPT4}

\* the pattern "gpt-3.5-turbo" | "gpt-4" of both match expressions
IsOpenAIModel(model) == model \in {GPT35, GPT4}

\* Faulty variant: the name is not trimmed.
ModelNameEmpty(model) == is_empty(model)

\* model.trim().is_empty()
ModelNameBlank(model) == is_empty(trim(model))

LLMClient_new(model, e) ==
    IF ModelNameBlank(model)
    THEN Err("Model name cannot be empty")
    ELSE
        LET key == IF IsOpenAIModel(model)
                   THEN get_required_var(OPENAI_KEY_VAR, e)
                   ELSE Ok("")
            api_key == IF IsOpenAIModel(model) THEN Some(key.v) ELSE None
            base == env_var(OLLAMA_URL_VAR, e)
            api_url == IF IsOpenAIModel(model)
                       THEN OPENAI_URL
                       ELSE (IF base.ok THEN base.v ELSE OLLAMA_DEFAULT_BASE)
                            \o "/api/chat"
        IN  IF ~key.ok THEN Err(key.e)
            ELSE Ok([model |-> model, api_url |-> api_url,
                     api_key |-> api_key])

-----------------------------------------------------------------------------
\* JSON values (serde_json::Value) and their text.

\* A value is a record with one field, named after its kind.
JNull == [null |-> TRUE]
JStr(s) == [str |-> s]
JNum(n) == [num |-> n]
JArr(items) == [arr |-> items]
JObj(members) == [obj |-> members]

JKind(j) == CHOOSE k \in DOMAIN j : TRUE

\* The member of object o named k, if any.
JField(o, k) ==
    LET at == {i \in 1..Len(o.obj) : o.obj[i][1] = k}
    IN  IF JKind(o) # "obj" \/ at = {} THEN None
        ELSE Some(o.obj[CHOOSE i \in at : \A j \in at : i <= j][2])

\* Value indexing args["key"]: Null for a missing member or a non-object.
JIndex(j, k) == UnwrapOr(JField(j, k), JNull)

as_str(j) == IF JKind(j) = "str" THEN Some(j.str) ELSE None
as_f64(j) == IF JKind(j) = "num" THEN Some(j.num) ELSE None

RECURSIVE Render(_)
RECURSIVE RenderItems(_)
RECURSIVE RenderMembers(_)
Render(j) ==
    CASE JKind(j) = "null" -> "null"
      [] JKind(j) = "str" -> "\"" \o j.str \o "\""
      [] JKind(j) = "num" -> ToString(j.num)
      [] JKind(j) = "arr" -> "[" \o RenderItems(j.arr) \o "]"
      [] JKind(j) = "obj" -> "{" \o RenderMembers(j.obj) \o "}"
RenderItems(items) ==
    IF items = <<>> THEN ""
    ELSE Render(Head(items))
         \o (IF Len(items) > 1 THEN "," ELSE "")
         \o RenderItems(Tail(items))
RenderMembers(members) ==
    IF members = <<>> THEN ""
    ELSE "\"" \o Head(members)[1] \o "\":" \o Render(Head(members)[2])
         \o (IF Len(members) > 1 THEN "," ELSE "")
         \o RenderMembers(Tail(members))

-----------------------------------------------------------------------------
\* The conversation model (tools.rs): Message, ToolCall, Tool.

Message(role, content, tcs, tool_call_id, name) ==
    [role |-> role, content |-> content, tool_calls |-> tcs,
     tool_call_id |-> tool_call_id, name |-> name]

new_user(content) == Message("user", Some(content), None, None, None)

new_system(content) == Message("system", Some(content), None, None, None)

\* Faulty variant: the two arguments in each other's place.
new_tool_result_swapped(tool_call_id, content) ==
    Message("tool", Some(tool_call_id), None, Some(content), None)

new_tool_result(tool_call_id, content) ==
    Message("tool", Some(content), None, Some(tool_call_id), None)

ToolCall(id, tool_type, name, arguments) ==
    [id |-> id, type |-> tool_type,
     function |-> [name |-> name, arguments |-> arguments]]

\* builders::calculator
calculator ==
    [type |-> "function",
     function |->
        [name |-> "calculator",
         description |->
            "A simple calculator function for arithmetic operations",
         parameters |->
            [type |-> "object",
             properties |->
                [operation |-> [type |-> "string",
                                enum |-> <<"add", "subtract", "multiply",
                                           "divide">>],
                 a |-> [type |-> "number"],
                 b |-> [type |-> "number"]],
             required |-> <<"operation", "a", "b">>]]]

\* Serialize for Message: the Option fields are skipped when None.
OptionalMessageFields == {"content", "tool_calls", "tool_call_id", "name"}

SerializeMessage(m) ==
    [k \in {"role"} \cup {f \in OptionalMessageFields : m[f] # None} |->
        IF k = "role" THEN m.role ELSE Unwrap(m[k])]

SerializeMessages(ms) == [i \in 1..Len(ms) |-> SerializeMessage(ms[i])]

\* Deserialize for a required String member.
de_String(field) ==
    IF field # None /\ JKind(Unwrap(field)) = "str" THEN Ok(Unwrap(field).str)
    ELSE Err("invalid or missing string")

\* Deserialize for an Option<String> member: missing and null give None.
de_OptString(field) ==
    IF field = None \/ JKind(Unwrap(field)) = "null" THEN Ok(None)
    ELSE IF JKind(Unwrap(field)) = "str" THEN Ok(Some(Unwrap(field).str))
    ELSE Err("invalid type: expected a string")

\* Deserialize for ToolCall and ToolCallFunction: every member is required.
de_ToolCall(j) ==
    LET id == de_String(JField(j, "id"))
        ty == de_String(JField(j, "type"))
        fn == UnwrapOr(JField(j, "function"), JNull)
        name == de_String(JField(fn, "name"))
        arguments == de_String(JField(fn, "arguments"))
    IN  IF JKind(j) = "obj" /\ JKind(fn) = "obj" /\ id.ok /\ ty.ok /\ name.ok
           /\ arguments.ok
        THEN Ok(ToolCall(id.v, ty.v, name.v, arguments.v))
        ELSE Err("invalid tool call")

\* Deserialize for Option<Vec<ToolCall>>.
de_OptToolCalls(field) ==
    IF field = None \/ JKind(Unwrap(field)) = "null" THEN Ok(None)
    ELSE IF JKind(Unwrap(field)) # "arr"
    THEN Err("invalid type: expected a sequence")
    ELSE LET items == Unwrap(field).arr
             calls == [i \in 1..Len(items) |-> de_ToolCall(items[i])]
         IN  IF \A i \in 1..Len(items) : calls[i].ok
             THEN Ok(Some([i \in 1..Len(items) |-> calls[i].v]))
             ELSE Err("invalid tool call")

\* Deserialize for Message.
de_Message(j) ==
    LET role == de_String(JField(j, "role"))
        content == de_OptString(JField(j, "content"))
        tcs == de_OptToolCalls(JField(j, "tool_calls"))
        tool_call_id == de_OptString(JField(j, "tool_call_id"))
        name == de_OptString(JField(j, "name"))
    IN  IF JKind(j) = "obj" /\ role.ok /\ content.ok /\ tcs.ok /\ tool_call_id.ok
           /\ name.ok
        THEN Ok(Message(role.v, content.v, tcs.v, tool_call_id.v, name.v))
        ELSE Err("invalid message")

-----------------------------------------------------------------------------
\* LLMClient::chat_completion, up to the await of Client::send.

SEED == 42
MAX_TOKENS_WITH_TOOLS == 1024
MAX_TOKENS_NO_TOOLS == 100
NUM_CTX == 4096
HTTP_OK == 200

\* A decimal literal of the source: Dec(0, 1) is 0.1.
Dec(units, tenths) == [units |-> units, tenths |-> tenths]

\* Faulty variant: every request gets the larger limit.
TokenLimitAlwaysLarger(tools) == MAX_TOKENS_WITH_TOOLS

\* if tools.is_some() { 1024 } else { 100 }
TokenLimit(tools) ==
    IF IsSome(tools) THEN MAX_TOKENS_WITH_TOOLS ELSE MAX_TOKENS_NO_TOOLS

\* request["tools"] = json!(tools_list), only if let Some(tools_list) = tools
WithTools(request, tools) ==
    IF IsSome(tools) THEN request @@ ("tools" :> Unwrap(tools)) ELSE request

\* Faulty variant: temperature and seed follow the length of the history.
OpenAIBodyCallerSampling(c, msgs, tools) ==
    WithTools([model |-> c.model,
               messages |-> SerializeMessages(msgs),
               temperature |-> Dec(Len(msgs), 0),
               top_p |-> Dec(1, 0),
               seed |-> SEED + Len(msgs),
               stream |-> FALSE,
               max_tokens |-> TokenLimit(tools)], tools)

\* the OpenAI format
OpenAIBody(c, msgs, tools) ==
    WithTools([model |-> c.model,
               messages |-> SerializeMessages(msgs),
               temperature |-> Dec(0, 0),
               top_p |-> Dec(1, 0),
               seed |-> SEED,
               stream |-> FALSE,
               max_tokens |-> TokenLimit(tools)], tools)

\* the Ollama chat format
OllamaBody(c, msgs, tools) ==
    WithTools([model |-> c.model,
               messages |-> SerializeMessages(msgs),
               stream |-> FALSE,
               options |-> [temperature |-> Dec(0, 0),
                            top_p |-> Dec(0, 1),
                            seed |-> SEED,
                            num_ctx |-> NUM_CTX,
                            num_predict |-> TokenLimit(tools)]], tools)

\* Faulty variant: the flat body whatever the provider.
RequestBodyAlwaysFlat(c, msgs, tools) == OpenAIBody(c, msgs, tools)

RequestBody(c, msgs, tools) ==
    IF IsSome(c.api_key) THEN OpenAIBody(c, msgs, tools)
    ELSE OllamaBody(c, msgs, tools)

\* What the http crate refuses: Request::post on a string that is no URI, and
\* HeaderValue::from_str on a value with a control character.  The values
\* below are the ones of the model's environment that it refuses.
BadUriBase == "http://bad host"
BadHeaderKey == "sk-bad\nkey"

UriParses(url) == url # BadUriBase \o "/api/chat"

HeaderValueParses(value) == value # "Bearer " \o BadHeaderKey

\* Faulty variant: the credential is read from the environment again.
RequestHeadersFromEnv(c) ==
    LET common == ("Content-Type" :> "application/json")
                  @@ ("Accept" :> "application/json")
        key == env_var(OPENAI_KEY_VAR, env)
    IN  IF key.ok
        THEN common @@ ("Authorization" :> "Bearer " \o key.v)
        ELSE common

RequestHeaders(c) ==
    LET common == ("Content-Type" :> "application/json")
                  @@ ("Accept" :> "application/json")
    IN  IF IsSome(c.api_key)
        THEN common @@ ("Authorization" :> "Bearer " \o Unwrap(c.api_key))
        ELSE common

\* Faulty variant: the validation is missing.
MessagesNeverEmpty(msgs) == FALSE

\* messages.is_empty()
MessagesEmpty(msgs) == Len(msgs) = 0

\* The request chat_completion hands to Client::send, or the error it
\* returns before sending anything.
chat_completion_request(c, msgs, tools) ==
    IF MessagesEmpty(msgs) THEN Err("Messages cannot be empty")
    ELSE IF ~UriParses(c.api_url)
    THEN Err("Failed to create request: invalid uri character")
    ELSE IF IsSome(c.api_key)
            /\ ~HeaderValueParses("Bearer " \o Unwrap(c.api_key))
    THEN Err("Invalid API key format: failed to parse header value")
    ELSE Ok([method |-> "POST", uri |-> c.api_url,
             headers |-> RequestHeaders(c),
             body |-> RequestBody(c, msgs, tools)])

-----------------------------------------------------------------------------
\* LLMClient::chat_completion, from the answer of Client::send on.
\*
\* A reply is what the await yields: [kind |-> "transport_error", e] or
\* [kind |-> "response", status, body].  A body is
\*   [kind |-> "read_error"]    read_to_end fails,
\*   [kind |-> "invalid_utf8"]  the bytes are no UTF-8,
\*   [kind |-> "text", text]    a text that is no JSON,
\*   [kind |-> "json", json]    the text of the JSON value json.

TransportError(e) == [kind |-> "transport_error", e |-> e]
Response(status, body) == [kind |-> "response", status |-> status, body |-> body]

ReadErrorBody == [kind |-> "read_error"]
InvalidUtf8Body == [kind |-> "invalid_utf8"]
TextBody(text) == [kind |-> "text", text |-> text]
JsonBody(json) == [kind |-> "json", json |-> json]

\* String::from_utf8_lossy of the body
LossyText(body) ==
    CASE body.kind = "invalid_utf8" -> "\\ufffd"
      [] body.kind = "text" -> body.text
      [] body.kind = "json" -> Render(body.json)

\* Faulty variant: the message of the last choice is taken.
ParseOpenAILastChoice(body) ==
    LET choices == JField(body.json, "choices")
        items == Unwrap(choices).arr
        parsed == [i \in 1..Len(items) |->
                      IF JKind(items[i]) = "obj"
                         /\ JField(items[i], "message") # None
                      THEN de_Message(Unwrap(JField(items[i], "message")))
                      ELSE Err("missing field message")]
    IN  IF body.kind # "json"
        THEN Err("Failed to parse OpenAI response: expected value")
        ELSE IF choices = None \/ JKind(Unwrap(choices)) # "arr"
        THEN Err("Failed to parse OpenAI response: missing field choices")
        ELSE IF \E i \in 1..Len(items) : ~parsed[i].ok
        THEN Err("Failed to parse OpenAI response: " \o
                 parsed[CHOOSE i \in 1..Len(items) : ~parsed[i].ok].e)
        ELSE IF items = <<>> THEN Err("No response choices returned")
        ELSE Ok(parsed[Len(items)].v)

\* serde_json::from_str::<ChatResponse>, then choices.first()
ParseOpenAI(body) ==
    LET choices == JField(body.json, "choices")
        items == Unwrap(choices).arr
        parsed == [i \in 1..Len(items) |->
                      IF JKind(items[i]) = "obj"
                         /\ JField(items[i], "message") # None
                      THEN de_Message(Unwrap(JField(items[i], "message")))
                      ELSE Err("missing field message")]
    IN  IF body.kind # "json"
        THEN Err("Failed to parse OpenAI response: expected value")
        ELSE IF choices = None \/ JKind(Unwrap(choices)) # "arr"
        THEN Err("Failed to parse OpenAI response: missing field choices")
        ELSE IF \E i \in 1..Len(items) : ~parsed[i].ok
        THEN Err("Failed to parse OpenAI response: " \o
                 parsed[CHOOSE i \in 1..Len(items) : ~parsed[i].ok].e)
        ELSE IF items = <<>> THEN Err("No response choices returned")
        ELSE Ok(parsed[1].v)

\* serde_json::from_str::<OllamaResponse>
ParseOllama(body) ==
    LET message == JField(body.json, "message")
        parsed == de_Message(Unwrap(message))
    IN  IF body.kind # "json"
        THEN Err("Failed to parse Ollama response: expected value")
        ELSE IF message = None
        THEN Err("Failed to parse Ollama response: missing field message")
        ELSE IF ~parsed.ok
        THEN Err("Failed to parse Ollama response: " \o parsed.e)
        ELSE Ok(parsed.v)

\* res.status() != 200
StatusIsError(status) == status # HTTP_OK

\* Display of a StatusCode: the number and its canonical reason phrase.
StatusText(status) ==
    ToString(status) \o " " \o
    (CASE status = 200 -> "OK"
       [] status = 201 -> "Created"
       [] status = 404 -> "Not Found"
       [] OTHER -> "<unknown status code>")

\* format!("API error: status {} - {}", res.status(), from_utf8_lossy(body))
ApiErrorText(status, body) ==
    "API error: status " \o StatusText(status) \o " - " \o LossyText(body)

\* What chat_completion returns once the await of send has yielded reply.
chat_completion_response(c, reply) ==
    IF reply.kind = "transport_error"
    THEN Err("Request failed: " \o reply.e)
    ELSE IF StatusIsError(reply.status)
    THEN IF reply.body.kind = "read_error"
         THEN Err("Failed to read error response: connection reset")
         ELSE Err(ApiErrorText(reply.status, reply.body))
    ELSE IF reply.body.kind = "read_error"
    THEN Err("Failed to read response body: connection reset")
    ELSE IF reply.body.kind = "invalid_utf8"
    THEN Err("Invalid UTF-8 in response: invalid utf-8 sequence")
    ELSE IF IsSome(c.api_key) THEN ParseOpenAI(reply.body)
    ELSE ParseOllama(reply.body)

\* Faulty variant: the content is dropped.
ContentDropped(r) ==
    IF r.ok THEN Ok("") ELSE r

\* Faulty variant: a failed completion counts as an empty answer.
ContentOrDefaultOnError(r) ==
    Ok(IF r.ok THEN UnwrapOr(r.v.content, "") ELSE "")

\* chat_completion_text: response.content.unwrap_or_default()
ContentOrDefault(r) ==
    IF r.ok THEN Ok(UnwrapOr(r.v.content, "")) ELSE r

-----------------------------------------------------------------------------
\* The tool executor (tools.rs, mod handlers).

\* The argument texts the model answers with, as JSON values.
ArgObject(operation, a, b) ==
    JObj(<< <<"operation", operation>>, <<"a", a>>, <<"b", b>> >>)

\* The operation texts and the operands of the well-formed argument objects.
OperationTexts == {"add", "subtract", "multiply", "divide", "modulo", ""}
Operands == (-MaxOperand..MaxOperand) \cup {6, 24}

WellFormedArgs ==
    {ArgObject(JStr(op), JNum(a), JNum(b)) :
        op \in OperationTexts, a \in Operands, b \in Operands}

ArgValues ==
    WellFormedArgs \cup
    {JNull, JArr(<<JNum(1), JNum(2)>>), JStr("add"), JObj(<<>>),
     ArgObject(JNull, JNum(1), JNum(1)),
     ArgObject(JStr("divide"), JNull, JNum(0)),
     ArgObject(JStr("divide"), JNum(1), JStr("0")),
     ArgObject(JStr("modulo"), JStr("1"), JNum(1)),
     ArgObject(JStr("add"), JArr(<<JNum(2)>>), JNum(3)),
     JObj(<< <<"a", JNum(2)>>, <<"b", JNum(3)>>,
             <<"operation", JStr("add")>>, <<"note", JStr("sum")>> >>),
     ArgObject(JStr("divide"), JNum(24), JNum(6)),
     ArgObject(JStr("divide"), JNum(1), JNum(0)),
     ArgObject(JStr("divide"), JNum(1), JNum(2)),
     ArgObject(JStr("add"), JNum(2), JNum(3)),
     ArgObject(JStr("subtract"), JNum(2), JNum(3)),
     ArgObject(JStr("multiply"), JNum(2), JNum(3)),
     ArgObject(JStr("modulo"), JNum(1), JNum(1)),
     ArgObject(JNum(1), JNum(1), JNum(1)),
     ArgObject(JStr("add"), JStr("2"), JNum(3)),
     ArgObject(JStr("add"), JNum(2), JNull),
     JObj(<< <<"a", JNum(2)>>, <<"b", JNum(3)>> >>),
     JObj(<< <<"operation", JStr("add")>>, <<"b", JNum(3)>> >>),
     JObj(<< <<"operation", JStr("add")>>, <<"a", JNum(2)>> >>),
     JNum(5)}

\* serde_json::from_str::<Value>: the value whose text this is.
RenderedArgs == {<<Render(j), j>> : j \in ArgValues}

\* The Display text of the serde_json error for a text that is no JSON
\* value: the parser's message and the position where it stopped.
SyntaxErrorText(text) ==
    CASE text = "" -> "EOF while parsing a value at line 1 column 0"
      [] text = "not json" -> "expected ident at line 1 column 2"
      [] text = "{operation: add}" ->
            "key must be a string at line 1 column 2"
      [] text = "{\"operation\":\"add\",\"a\":2," ->
            "EOF while parsing a value at line 1 column 25"
      [] OTHER -> "expected value at line 1 column 1"

serde_json_from_str(text) ==
    LET values == {p \in RenderedArgs : p[1] = text}
    IN  IF values = {} THEN Err(SyntaxErrorText(text))
        ELSE Ok((CHOOSE p \in values : TRUE)[2])

\* f64 values as fractions in lowest terms, [n, d] with d > 0.
Abs(x) == IF x < 0 THEN -x ELSE x

\* the greatest common divisor of two naturals, not both 0
Gcd(x, y) ==
    LET m == IF x > y THEN x ELSE y
        common == {g \in 1..m : x % g = 0 /\ y % g = 0}
    IN  CHOOSE g \in common : \A h \in common : h <= g

Frac(n, d) ==
    LET g == Gcd(Abs(n), Abs(d))
        sign == IF d < 0 THEN -1 ELSE 1
    IN  [n |-> sign * (n \div g), d |-> sign * (d \div g)]

F64(i) == [n |-> i, d |-> 1]

FAdd(x, y) == Frac(x.n * y.d + y.n * x.d, x.d * y.d)
FSub(x, y) == Frac(x.n * y.d - y.n * x.d, x.d * y.d)

\* The zero with the sign bit set, which a product or a quotient of a zero
\* and a negative value is.
NegZero == [n |-> 0, d |-> -1]
IsNegative(x) == x.n < 0 \/ x = NegZero
SignedZero(x, y) ==
    IF IsNegative(x) # IsNegative(y) THEN NegZero ELSE F64(0)

FMul(x, y) ==
    IF x.n * y.n = 0 THEN SignedZero(x, y)
    ELSE Frac(x.n * y.n, x.d * y.d)

\* Faulty variant: the quotient is truncated to a whole number.
FDivTruncating(x, y) ==
    F64((Abs(x.n * y.d) \div Abs(x.d * y.n))
        * (IF IsNegative(x) # IsNegative(y) THEN -1 ELSE 1))

\* x / y for y other than zero
FDiv(x, y) ==
    IF x.n = 0 THEN SignedZero(x, y)
    ELSE Frac(x.n * y.d, x.d * y.n)

\* Display for f64: "4" for 4.0, "0.5" for 0.5, "-0" for -0.0.  The digits
\* after the point are produced while the fraction is a finite decimal; a
\* value that is none, such as 1/3, is written as its exact fraction and
\* stands for the digits of the nearest f64.
RECURSIVE Digits(_, _)
Digits(r, d) ==
    IF r = 0 THEN ""
    ELSE ToString((10 * r) \div d) \o Digits((10 * r) % d, d)

IsFiniteDecimal(d) == \E k \in 0..6 : (10 ^ k) % d = 0

FmtF64(x) ==
    IF x = NegZero THEN "-0"
    ELSE IF x.d = 1 THEN ToString(x.n)
    ELSE IF IsFiniteDecimal(x.d)
    THEN (IF x.n < 0 THEN "-" ELSE "") \o ToString(Abs(x.n) \div x.d)
         \o "." \o Digits(Abs(x.n) % x.d, x.d)
    ELSE ToString(x.n) \o "/" \o ToString(x.d)

\* The match on the operation and the format! of the result (lines 156-170),
\* for an operation text and two f64 values.
calculate(op, x, y) ==
    LET text(r) == "The result of " \o FmtF64(x) \o " " \o op \o " "
                   \o FmtF64(y) \o " is " \o FmtF64(r)
    IN  CASE op = "add" -> Ok(text(FAdd(x, y)))
          [] op = "subtract" -> Ok(text(FSub(x, y)))
          [] op = "multiply" -> Ok(text(FMul(x, y)))
          [] op = "divide" ->
               IF y.n = 0 THEN Err("Division by zero")
               ELSE Ok(text(FDiv(x, y)))
          [] OTHER -> Err("Unsupported operation: " \o op)

\* Faulty variant: a missing or non-numeric b counts as 0.
extract_defaulting_b(operation, a, b) ==
    IF operation = None THEN Err("Missing operation")
    ELSE IF a = None THEN Err("Missing parameter a")
    ELSE calculate(Unwrap(operation), F64(Unwrap(a)), F64(UnwrapOr(b, 0)))

\* The three ok_or extractions (lines 151-153), for the parsed arguments.
extract_and_calculate(operation, a, b) ==
    IF operation = None THEN Err("Missing operation")
    ELSE IF a = None THEN Err("Missing parameter a")
    ELSE IF b = None THEN Err("Missing parameter b")
    ELSE calculate(Unwrap(operation), F64(Unwrap(a)), F64(Unwrap(b)))

\* Each let of the function binds its value once: the bound variables below
\* are the function's locals args, operation, a and b.
execute_calculator(tool_call) ==
    CHOOSE r \in
        {IF ~args.ok
         THEN Err("Failed to parse calculator arguments: " \o args.e)
         ELSE CHOOSE v \in
                {extract_and_calculate(operation, a, b) :
                    operation \in {as_str(JIndex(args.v, "operation"))},
                    a \in {as_f64(JIndex(args.v, "a"))},
                    b \in {as_f64(JIndex(args.v, "b"))}} : TRUE
         : args \in {serde_json_from_str(tool_call.function.arguments)}} : TRUE

\* Faulty variant: a tool the catalog does not have is an error.
execute_tool_call_strict(tool_call) ==
    IF tool_call.function.name = "calculator"
    THEN execute_calculator(tool_call)
    ELSE Err("Unknown tool: " \o tool_call.function.name)

execute_tool_call(tool_call) ==
    IF tool_call.function.name = "calculator"
    THEN execute_calculator(tool_call)
    ELSE Ok("Unknown tool: " \o tool_call.function.name)

-----------------------------------------------------------------------------
\* The inputs of the model: environments, triggers and what the remote
\* model answers.

RECURSIVE SeqsUpTo(_, _)
SeqsUpTo(S, n) ==
    IF n = 0 THEN {<<>>}
    ELSE LET shorter == SeqsUpTo(S, n - 1)
         IN  shorter \cup {Append(q, x) : q \in shorter, x \in S}

GoodKey == "sk-test"
GoodBase == "http://ollama:11434"

KeyValues == {None, Some(UnicodeValue(GoodKey)), Some(NotUnicodeValue),
              Some(UnicodeValue(BadHeaderKey))}
BaseValues == {None, Some(UnicodeValue(GoodBase)),
               Some(UnicodeValue(BadUriBase))}

Environment(key, base) == (OPENAI_KEY_VAR :> key) @@ (OLLAMA_URL_VAR :> base)

Environments == {Environment(k, b) : k \in KeyValues, b \in BaseValues}

\* run constructs its client for "gpt-4" and never reads the base URL.
RunEnvironments == {e \in Environments : e[OLLAMA_URL_VAR] = None}

\* Byte strings: [utf8 |-> TRUE, s |-> text] is the UTF-8 encoding of text.
Utf8(s) == [utf8 |-> TRUE, s |-> s]
NotUtf8 == [utf8 |-> FALSE, s |-> "\\xff"]

Prompt == "Calculate 24 divided by 6"

\* TriggerData: log_ok and info_ok say whether decode_event_log_data! and
\* DataWithId::abi_decode accept the event's bytes.
Trigger(kind, log_ok, info_ok, triggerId, data) ==
    [kind |-> kind, log_ok |-> log_ok, info_ok |-> info_ok,
     triggerId |-> triggerId, data |-> data]

Triggers ==
    {Trigger("Raw", TRUE, TRUE, 0, d) : d \in {Utf8(Prompt), NotUtf8}}
    \cup {Trigger("EthContractEvent", TRUE, TRUE, id, d) :
            id \in {0, 7}, d \in {Utf8(Prompt), NotUtf8}}
    \cup {Trigger("EthContractEvent", FALSE, TRUE, 7, Utf8(Prompt)),
          Trigger("EthContractEvent", TRUE, FALSE, 7, Utf8(Prompt)),
          Trigger("CosmosContractEvent", TRUE, TRUE, 7, Utf8(Prompt))}

\* The tool calls of a first-round answer.
ToolCallIds == {"call_1", "call_2"}
\* <<function name, arguments text>>: two calls that succeed, one that fails
\* and one of a tool the catalog does not have.
ToolRequests ==
    {<<"calculator", Render(ArgObject(JStr("divide"), JNum(24), JNum(6)))>>,
     <<"calculator", Render(ArgObject(JStr("add"), JNum(2), JNum(3)))>>,
     <<"calculator", Render(ArgObject(JStr("divide"), JNum(1), JNum(0)))>>,
     <<"get_weather", "{}">>}

ToolCallJson(id, name, arguments) ==
    JObj(<< <<"id", JStr(id)>>, <<"type", JStr("function")>>,
            <<"function", JObj(<< <<"name", JStr(name)>>,
                                  <<"arguments", JStr(arguments)>> >>)>> >>)

WireToolCalls ==
    {ToolCallJson(id, r[1], r[2]) : id \in ToolCallIds, r \in ToolRequests}

\* An assistant message as JSON; content and tool_calls are Option<JSON>,
\* None leaving the member out.
WireMessage(content, tcs) ==
    JObj(<< <<"role", JStr("assistant")>> >>
         \o (IF content = None THEN <<>> ELSE << <<"content", Unwrap(content)>> >>)
         \o (IF tcs = None THEN <<>> ELSE << <<"tool_calls", Unwrap(tcs)>> >>))

WireContents == {None, Some(JNull), Some(JStr("The result is 4"))}

FirstToolCalls ==
    {None, Some(JNull)}
    \cup {Some(JArr(q)) : q \in SeqsUpTo(WireToolCalls, MaxToolCalls)}

FinalToolCalls ==
    {None, Some(JArr(<<>>)),
     Some(JArr(<<ToolCallJson("call_9", "calculator",
                              Render(ArgObject(JStr("add"), JNum(2), JNum(3))))>>))}

Choices(items) == JsonBody(JObj(<< <<"choices", JArr(items)>> >>))
Choice(message) == JObj(<< <<"message", message>> >>)
OllamaAnswer(message) == JsonBody(JObj(<< <<"message", message>> >>))

DecoyMessage == WireMessage(Some(JStr("second choice")), None)
SimpleAnswer == WireMessage(Some(JStr("ok")), None)

\* Bodies that carry no usable answer.
BrokenBodies ==
    {ReadErrorBody, InvalidUtf8Body, TextBody("upstream timeout"),
     Choices(<<>>),
     Choices(<<Choice(JObj(<< <<"content", JStr("no role")>> >>))>>),
     Choices(<<Choice(WireMessage(Some(JNum(4)), None))>>),
     Choices(<<Choice(WireMessage(None, Some(JArr(<<JObj(<<>>)>>))))>>),
     JsonBody(JObj(<< <<"error", JStr("model not found")>> >>))}

FailureReplies ==
    {TransportError("connection refused")}
    \cup {Response(st, b) :
            st \in {201, 404},
            b \in {ReadErrorBody, InvalidUtf8Body, TextBody("rate limited"),
                   Choices(<<Choice(SimpleAnswer)>>),
                   OllamaAnswer(SimpleAnswer)}}
    \cup {Response(HTTP_OK, b) : b \in BrokenBodies}

FirstReplies ==
    FailureReplies
    \cup {Response(HTTP_OK, Choices(<<Choice(WireMessage(c, t))>>)) :
            c \in WireContents, t \in FirstToolCalls}
    \cup {Response(HTTP_OK, Choices(<<Choice(WireMessage(c, None)),
                                      Choice(DecoyMessage)>>)) :
            c \in WireContents}
    \cup {Response(HTTP_OK, OllamaAnswer(SimpleAnswer))}

FinalReplies ==
    FailureReplies
    \cup {Response(HTTP_OK, Choices(<<Choice(WireMessage(c, t))>>)) :
            c \in WireContents \cup {Some(JStr(""))}, t \in FinalToolCalls}
    \cup {Response(HTTP_OK, OllamaAnswer(SimpleAnswer))}

-----------------------------------------------------------------------------
\* Component::run (lib.rs) and process_tool_calls.

SystemPrompt ==
    "You are a helpful assistant for the Hats Protocol, a system for creating, managing, and wearing authority tokens called Hats. Use the provided tools when appropriate to assist users with their queries."

DataWithId(triggerId, data) == [triggerId |-> triggerId, data |-> data]

\* abi_encode of a DataWithId, as its words: the offset of the tuple, the
\* triggerId, the offset of data within the tuple, the length of data, and
\* the bytes of data.
abi_encode(d) == <<32, d.triggerId, 64, Len(d.data.s), d.data>>

\* What a reader of the encoded bytes gets back.
abi_decode(encoded) == DataWithId(encoded[2], encoded[5])

\* The match on action.data.
DecodeTriggerInfo(t) ==
    IF t.kind = "EthContractEvent"
    THEN IF ~t.log_ok
         THEN Err("Failed to decode event log data: invalid log")
         ELSE IF ~t.info_ok
         THEN Err("Failed to decode trigger info: invalid data")
         ELSE Ok(DataWithId(t.triggerId, t.data))
    ELSE IF t.kind = "Raw"
    THEN IF ~t.data.utf8
         THEN Err("Failed to decode prompt from bytes: invalid utf-8 sequence")
         ELSE Ok(DataWithId(0, Utf8(t.data.s)))
    ELSE Err("Unsupported trigger data type")

\* std::str::from_utf8(&trigger_info.data)
DecodePrompt(info) ==
    IF info.data.utf8 THEN Ok(info.data.s)
    ELSE Err("Failed to decode prompt from bytes: invalid utf-8 sequence")

\* run returns Err(e): nothing is encoded.
Fail(e) ==
    /\ pc' = "Failed"
    /\ ret' = Some(Err(e))

\* The map_err on the value of the async block.
BlockError(e) == "Failed to get chat completion: " \o e

Decode ==
    /\ pc = "Decode"
    /\ LET info == DecodeTriggerInfo(trigger)
           prompt == DecodePrompt(info.v)
       IN  IF ~info.ok
           THEN Fail(info.e) /\ UNCHANGED trigger_info
           ELSE IF ~prompt.ok
           THEN Fail(prompt.e) /\ trigger_info' = Some(info.v)
           ELSE /\ trigger_info' = Some(info.v)
                /\ pc' = "Construct"
                /\ UNCHANGED ret
    /\ UNCHANGED <<env, client, sent, inflight, received, trigger, messages,
                   response, tool_calls, tool_messages, next_call, executed,
                   result>>
    /\ steps' = steps + 1
    /\ UNCHANGED harnessVars

\* LLMClient::new("gpt-4"), available_tools and the initial messages.
available_tools == <<calculator>>

Construct ==
    /\ pc = "Construct"
    /\ LET c == LLMClient_new(GPT4, env)
       IN  IF ~c.ok
           THEN /\ Fail(BlockError("Failed to initialize LLM client: " \o c.e))
                /\ UNCHANGED <<client, messages>>
           ELSE /\ client' = Some(c.v)
                /\ messages' = <<new_system(SystemPrompt),
                                 new_user(Unwrap(trigger_info).data.s)>>
                /\ pc' = "SendFirst"
                /\ UNCHANGED ret
    /\ UNCHANGED <<env, sent, inflight, received, trigger, trigger_info,
                   response, tool_calls, tool_messages, next_call, executed,
                   result>>
    /\ steps' = steps + 1
    /\ UNCHANGED harnessVars

\* client.chat_completion(&messages, Some(&available_tools)), to its await.
SendFirst ==
    /\ pc = "SendFirst"
    /\ LET req == chat_completion_request(Unwrap(client), messages,
                                          Some(available_tools))
       IN  IF ~req.ok
           THEN Fail(BlockError(req.e)) /\ UNCHANGED <<sent, inflight>>
           ELSE /\ sent' = Append(sent, req.v)
                /\ inflight' = Append(inflight, req.v)
                /\ pc' = "AwaitingModel"
                /\ UNCHANGED ret
    /\ UNCHANGED <<env, client, received, trigger, trigger_info, messages,
                   response, tool_calls, tool_messages, next_call, executed,
                   result>>
    /\ steps' = steps + 1
    /\ UNCHANGED harnessVars

\* Faulty variant: the follow-up list starts without the system message.
clone_without_system(initial_messages) == Tail(initial_messages)

\* let mut tool_messages = initial_messages.clone()
clone(initial_messages) == initial_messages

\* Faulty variant: the content is copied as the model sent it.
SanitizedKeepsNull(resp, tcs) ==
    Message(resp.role, resp.content, Some(tcs), resp.tool_call_id, resp.name)

\* The assistant's message as process_tool_calls puts it into the follow-up.
Sanitized(resp, tcs) ==
    Message(resp.role, Some(UnwrapOr(resp.content, "")), Some(tcs),
            resp.tool_call_id, resp.name)

\* Faulty variant: the is_empty test is missing.
HasToolCallsUnlessNone(taken) == IsSome(taken)

\* if let Some(tool_calls) = tool_calls { if !tool_calls.is_empty() {
HasToolCalls(taken) == IsSome(taken) /\ Unwrap(taken) # <<>>

\* Faulty variant: a failed first round is sent again, once.
RecvFirstRetries ==
    /\ pc = "AwaitingModel"
    /\ \E reply \in FirstReplies :
        LET r == chat_completion_response(Unwrap(client), reply)
            taken == r.v.tool_calls
            rest == [r.v EXCEPT !.tool_calls = None]
        IN  /\ received' = Append(received, reply)
            /\ IF ~r.ok /\ Len(sent) < 2
               THEN /\ sent' = Append(sent, sent[1])
                    /\ inflight' = <<sent[1]>>
                    /\ UNCHANGED <<pc, ret, response, tool_calls,
                                   tool_messages, next_call, result>>
               ELSE IF ~r.ok
               THEN /\ Fail(BlockError(r.e))
                    /\ inflight' = Tail(inflight)
                    /\ UNCHANGED <<sent, response, tool_calls, tool_messages,
                                   next_call, result>>
               ELSE /\ response' = Some(rest)
                    /\ inflight' = Tail(inflight)
                    /\ tool_calls' = taken
                    /\ UNCHANGED <<ret, sent>>
                    /\ IF HasToolCalls(taken)
                       THEN /\ tool_messages' =
                                 Append(messages,
                                        Sanitized(rest, Unwrap(taken)))
                            /\ next_call' = 1
                            /\ pc' = "ExecutingTools"
                            /\ UNCHANGED result
                       ELSE /\ result' = Some(UnwrapOr(rest.content, ""))
                            /\ pc' = "Encode"
                            /\ UNCHANGED <<tool_messages, next_call>>
    /\ UNCHANGED <<env, client, trigger, trigger_info, messages, executed>>
    /\ steps' = steps + 1
    /\ UNCHANGED harnessVars

\* The first answer arrives: response.tool_calls.take() and the branch on it;
\* with tool calls, process_tool_calls up to its for loop.
RecvFirst ==
    /\ pc = "AwaitingModel"
    /\ \E reply \in FirstReplies :
        LET r == chat_completion_response(Unwrap(client), reply)
            taken == r.v.tool_calls
            rest == [r.v EXCEPT !.tool_calls = None]
        IN  /\ inflight' = Tail(inflight)
            /\ received' = Append(received, reply)
            /\ IF ~r.ok
               THEN /\ Fail(BlockError(r.e))
                    /\ UNCHANGED <<response, tool_calls, tool_messages,
                                   next_call, result>>
               ELSE /\ response' = Some(rest)
                    /\ tool_calls' = taken
                    /\ UNCHANGED ret
                    /\ IF HasToolCalls(taken)
                       THEN /\ tool_messages' =
                                 Append(clone(messages),
                                        Sanitized(rest, Unwrap(taken)))
                            /\ next_call' = 1
                            /\ pc' = "ExecutingTools"
                            /\ UNCHANGED result
                       ELSE /\ result' = Some(UnwrapOr(rest.content, ""))
                            /\ pc' = "Encode"
                            /\ UNCHANGED <<tool_messages, next_call>>
    /\ UNCHANGED <<env, client, sent, trigger, trigger_info, messages,
                   executed>>
    /\ steps' = steps + 1
    /\ UNCHANGED harnessVars

\* Faulty variant: the loop stops one element early.
LoopFinishedOneEarly(i, tcs) == i >= Len(tcs)

\* for tool_call in tool_calls: the loop is over after the last element
LoopFinished(i, tcs) == i > Len(tcs)

\* Faulty variant: a tool error becomes the content of the tool-result
\* message and the loop goes on.
ExecuteToolAppendsError ==
    /\ pc = "ExecutingTools"
    /\ ~LoopFinished(next_call, Unwrap(tool_calls))
    /\ LET tool_call == Unwrap(tool_calls)[next_call]
       IN  \E tool_result \in {execute_tool_call(tool_call)} :
            /\ executed' = Append(executed, tool_call)
            /\ tool_messages' =
                 Append(tool_messages,
                        new_tool_result(tool_call.id,
                                        IF tool_result.ok THEN tool_result.v
                                        ELSE tool_result.e))
            /\ next_call' = next_call + 1
            /\ UNCHANGED <<pc, ret>>
    /\ UNCHANGED <<env, client, sent, inflight, received, trigger,
                   trigger_info, messages, response, tool_calls, result>>
    /\ steps' = steps + 1
    /\ UNCHANGED harnessVars

\* One iteration of the for loop over tool_calls.
ExecuteTool ==
    /\ pc = "ExecutingTools"
    /\ ~LoopFinished(next_call, Unwrap(tool_calls))
    /\ LET tool_call == Unwrap(tool_calls)[next_call]
           tool_result == execute_tool_call(tool_call)
       IN  /\ executed' = Append(executed, tool_call)
           /\ IF ~tool_result.ok
              THEN /\ Fail(BlockError(tool_result.e))
                   /\ UNCHANGED <<tool_messages, next_call>>
              ELSE /\ tool_messages' =
                        Append(tool_messages,
                               new_tool_result(tool_call.id, tool_result.v))
                   /\ next_call' = next_call + 1
                   /\ UNCHANGED <<pc, ret>>
    /\ UNCHANGED <<env, client, sent, inflight, received, trigger,
                   trigger_info, messages, response, tool_calls, result>>
    /\ steps' = steps + 1
    /\ UNCHANGED harnessVars

\* Faulty variant: the follow-up request offers the tools again.
SendFinalWithTools ==
    /\ pc = "ExecutingTools"
    /\ LoopFinished(next_call, Unwrap(tool_calls))
    /\ LET req == chat_completion_request(Unwrap(client), tool_messages,
                                          Some(available_tools))
       IN  IF ~req.ok
           THEN Fail(BlockError(req.e)) /\ UNCHANGED <<sent, inflight>>
           ELSE /\ sent' = Append(sent, req.v)
                /\ inflight' = Append(inflight, req.v)
                /\ pc' = "AwaitingFinal"
                /\ UNCHANGED ret
    /\ UNCHANGED <<env, client, received, trigger, trigger_info, messages,
                   response, tool_calls, tool_messages, next_call, executed,
                   result>>
    /\ steps' = steps + 1
    /\ UNCHANGED harnessVars

\* client.chat_completion_text(&tool_messages), to its await.
SendFinal ==
    /\ pc = "ExecutingTools"
    /\ LoopFinished(next_call, Unwrap(tool_calls))
    /\ LET req == chat_completion_request(Unwrap(client), tool_messages, None)
       IN  IF ~req.ok
           THEN Fail(BlockError(req.e)) /\ UNCHANGED <<sent, inflight>>
           ELSE /\ sent' = Append(sent, req.v)
                /\ inflight' = Append(inflight, req.v)
                /\ pc' = "AwaitingFinal"
                /\ UNCHANGED ret
    /\ UNCHANGED <<env, client, received, trigger, trigger_info, messages,
                   response, tool_calls, tool_messages, next_call, executed,
                   result>>
    /\ steps' = steps + 1
    /\ UNCHANGED harnessVars

\* Faulty variant: tool calls of the final answer start another round.
RecvFinalLoops ==
    /\ pc = "AwaitingFinal"
    /\ \E reply \in FinalReplies :
        LET r == chat_completion_response(Unwrap(client), reply)
        IN  /\ inflight' = Tail(inflight)
            /\ received' = Append(received, reply)
            /\ IF ~r.ok
               THEN /\ Fail(BlockError(r.e))
                    /\ UNCHANGED <<result, tool_calls, tool_messages,
                                   next_call>>
               ELSE IF HasToolCalls(r.v.tool_calls) /\ Len(sent) < 3
               THEN /\ tool_calls' = r.v.tool_calls
                    /\ tool_messages' =
                         Append(tool_messages,
                                Sanitized(r.v, Unwrap(r.v.tool_calls)))
                    /\ next_call' = 1
                    /\ pc' = "ExecutingTools"
                    /\ UNCHANGED <<result, ret>>
               ELSE /\ result' = Some(UnwrapOr(r.v.content, ""))
                    /\ pc' = "Encode"
                    /\ UNCHANGED <<ret, tool_calls, tool_messages, next_call>>
    /\ UNCHANGED <<env, client, sent, trigger, trigger_info, messages,
                   response, executed>>
    /\ steps' = steps + 1
    /\ UNCHANGED harnessVars

\* The final answer arrives: chat_completion_text's result is the block's.
RecvFinal ==
    /\ pc = "AwaitingFinal"
    /\ \E reply \in FinalReplies :
        LET r == ContentOrDefault(
                    chat_completion_response(Unwrap(client), reply))
        IN  /\ inflight' = Tail(inflight)
            /\ received' = Append(received, reply)
            /\ IF ~r.ok
               THEN Fail(BlockError(r.e)) /\ UNCHANGED result
               ELSE /\ result' = Some(r.v)
                    /\ pc' = "Encode"
                    /\ UNCHANGED ret
    /\ UNCHANGED <<env, client, sent, trigger, trigger_info, messages,
                   response, tool_calls, tool_messages, next_call, executed>>
    /\ steps' = steps + 1
    /\ UNCHANGED harnessVars

\* Faulty variant: the answer is encoded with the identifier 0.
EncodeWithoutId ==
    /\ pc = "Encode"
    /\ ret' = Some(Ok(Some(abi_encode(DataWithId(0, Utf8(Unwrap(result)))))))
    /\ pc' = "Done"
    /\ UNCHANGED <<env, client, sent, inflight, received, trigger,
                   trigger_info, messages, response, tool_calls,
                   tool_messages, next_call, executed, result>>
    /\ steps' = steps + 1
    /\ UNCHANGED harnessVars

\* DataWithId { triggerId, data: result bytes }.abi_encode(); Ok(Some(encoded))
Encode ==
    /\ pc = "Encode"
    /\ ret' = Some(Ok(Some(abi_encode(
                    DataWithId(Unwrap(trigger_info).triggerId,
                               Utf8(Unwrap(result)))))))
    /\ pc' = "Done"
    /\ UNCHANGED <<env, client, sent, inflight, received, trigger,
                   trigger_info, messages, response, tool_calls,
                   tool_messages, next_call, executed, result>>
    /\ steps' = steps + 1
    /\ UNCHANGED harnessVars

HarnessIdle ==
    /\ hpc = "Unused"
    /\ hcall = None
    /\ hreply = None
    /\ hret = None

Init ==
    /\ env \in RunEnvironments
    /\ trigger \in Triggers
    /\ client = None
    /\ sent = <<>>
    /\ inflight = <<>>
    /\ received = <<>>
    /\ pc = "Decode"
    /\ trigger_info = None
    /\ messages = <<>>
    /\ response = None
    /\ tool_calls = None
    /\ tool_messages = <<>>
    /\ next_call = 0
    /\ executed = <<>>
    /\ result = None
    /\ ret = None
    /\ steps = 0
    /\ HarnessIdle

Next ==
    \/ Decode
    \/ Construct
    \/ SendFirst
    \/ RecvFirst
    \/ ExecuteTool
    \/ SendFinal
    \/ RecvFinal
    \/ Encode

Spec == Init /\ [][Next]_vars

-----------------------------------------------------------------------------
\* A caller of the client API: LLMClient::new on any model name, then
\* chat_completion on any message list and tools argument, as the unit tests
\* of llm.rs call them.

Whitespace == {" ", "\t", "\n"}
BlankModels == SeqsUpTo(Whitespace, MaxBlankLen)

Models ==
    BlankModels
    \cup {GPT4, GPT35, LLAMA32, <<" ">> \o GPT4, GPT4 \o <<"\n">>,
          <<" ", "x", " ">>}

ToolTranscript ==
    LET call == ToolCall("call_1", "function", "calculator",
                         Render(ArgObject(JStr("divide"), JNum(24), JNum(6))))
    IN  <<new_system("You are a helpful math assistant"),
          new_user(Prompt),
          Message("assistant", None, Some(<<call>>), None, None),
          new_tool_result("call_1", "The result of 24 divide 6 is 4")>>

MessageLists == {<<>>, <<new_user(Prompt)>>, ToolTranscript}

ToolsArguments == {None, Some(<<>>), Some(available_tools)}

ClientReplies ==
    FailureReplies
    \cup {Response(HTTP_OK, Choices(<<Choice(SimpleAnswer)>>)),
          Response(HTTP_OK, Choices(<<Choice(SimpleAnswer),
                                      Choice(DecoyMessage)>>)),
          Response(HTTP_OK, Choices(<<Choice(SimpleAnswer),
                                      Choice(JObj(<<>>))>>)),
          Response(HTTP_OK, OllamaAnswer(SimpleAnswer)),
          Response(HTTP_OK, OllamaAnswer(WireMessage(Some(JNull), None)))}

NewCall(model) == [op |-> "new", model |-> model]
ChatCall(msgs, tools) ==
    [op |-> "chat_completion", messages |-> msgs, tools |-> tools]

\* LLMClient::new(model)
ClientNew ==
    /\ hpc = "Idle"
    /\ client = None
    /\ \E model \in Models :
        LET r == LLMClient_new(model, env)
        IN  /\ hcall' = Some(NewCall(model))
            /\ hreply' = None
            /\ hret' = Some(r)
            /\ client' = IF r.ok THEN Some(r.v) ELSE None
    /\ UNCHANGED <<env, sent, inflight, received, hpc>>
    /\ UNCHANGED loopVars

\* client.chat_completion(messages, tools), to its await or its early return
ClientChatSend ==
    /\ hpc = "Idle"
    /\ client # None
    /\ Len(sent) < MaxRequests
    /\ \E msgs \in MessageLists, tools \in ToolsArguments :
        LET req == chat_completion_request(Unwrap(client), msgs, tools)
        IN  /\ hcall' = Some(ChatCall(msgs, tools))
            /\ hreply' = None
            /\ IF ~req.ok
               THEN /\ hret' = Some(req)
                    /\ UNCHANGED <<sent, inflight, hpc>>
               ELSE /\ sent' = Append(sent, req.v)
                    /\ inflight' = Append(inflight, req.v)
                    /\ hpc' = "Awaiting"
                    /\ hret' = None
    /\ UNCHANGED <<env, client, received>>
    /\ UNCHANGED loopVars

\* the await of Client::send yields, and chat_completion returns
ClientChatRecv ==
    /\ hpc = "Awaiting"
    /\ Unwrap(hcall).op = "chat_completion"
    /\ \E reply \in ClientReplies :
        /\ hret' = Some(chat_completion_response(Unwrap(client), reply))
        /\ hreply' = Some(reply)
        /\ inflight' = Tail(inflight)
        /\ hpc' = "Idle"
    /\ UNCHANGED <<env, client, sent, received, hcall>>
    /\ UNCHANGED loopVars

InitClient ==
    /\ env \in Environments
    /\ client = None
    /\ sent = <<>>
    /\ inflight = <<>>
    /\ received = <<>>
    /\ hpc = "Idle"
    /\ hcall = None
    /\ hreply = None
    /\ hret = None
    /\ pc = "Unused"
    /\ trigger = Trigger("Raw", TRUE, TRUE, 0, Utf8(Prompt))
    /\ trigger_info = None
    /\ messages = <<>>
    /\ response = None
    /\ tool_calls = None
    /\ tool_messages = <<>>
    /\ next_call = 0
    /\ executed = <<>>
    /\ result = None
    /\ ret = None
    /\ steps = 0

\* chat_completion_text(messages): self.chat_completion(messages, None), to
\* its await.  The call records the tools argument it passes on.
ChatTextCall(msgs) ==
    [op |-> "chat_completion_text", messages |-> msgs, tools |-> None]

ClientChatTextSend ==
    /\ hpc = "Idle"
    /\ client # None
    /\ Len(sent) < MaxRequests
    /\ \E msgs \in MessageLists :
        LET req == chat_completion_request(Unwrap(client), msgs, None)
        IN  /\ hcall' = Some(ChatTextCall(msgs))
            /\ hreply' = None
            /\ IF ~req.ok
               THEN /\ hret' = Some(req)
                    /\ UNCHANGED <<sent, inflight, hpc>>
               ELSE /\ sent' = Append(sent, req.v)
                    /\ inflight' = Append(inflight, req.v)
                    /\ hpc' = "Awaiting"
                    /\ hret' = None
    /\ UNCHANGED <<env, client, received>>
    /\ UNCHANGED loopVars

\* the await yields, and chat_completion_text returns the content
ClientChatTextRecv ==
    /\ hpc = "Awaiting"
    /\ Unwrap(hcall).op = "chat_completion_text"
    /\ \E reply \in ClientReplies :
        /\ hret' = Some(ContentOrDefault(
                        chat_completion_response(Unwrap(client), reply)))
        /\ hreply' = Some(reply)
        /\ inflight' = Tail(inflight)
        /\ hpc' = "Idle"
    /\ UNCHANGED <<env, client, sent, received, hcall>>
    /\ UNCHANGED loopVars

NextClient ==
    \/ ClientNew
    \/ ClientChatSend
    \/ ClientChatRecv
    \/ ClientChatTextSend
    \/ ClientChatTextRecv

SpecClient == InitClient /\ [][NextClient]_vars

-----------------------------------------------------------------------------
\* Properties of the client API, checked under SpecClient.

LastCallIs(op) == IsSome(hcall) /\ Unwrap(hcall).op = op

Hosted(c) == IsSome(c.api_key)

\* C1: chat_completion on an empty message list returns the EmptyMessages
\* text, whatever the client's provider and the tools argument, and the call
\* hands no request to Client::send: a step that ends with such a call as
\* the last one leaves sent and inflight as they were and the caller idle.
C1_EmptyMessagesRejected ==
    [][(IsSome(hcall') /\ Unwrap(hcall').op = "chat_completion"
        /\ Unwrap(hcall').messages = <<>>)
       => /\ hret' = Some(Err(ErrorDisplay("EmptyMessages")))
          /\ sent' = sent
          /\ inflight' = inflight
          /\ hpc' = "Idle"]_vars

\* C1 witness: a hosted client was given an empty list together with the
\* tool catalog, and the call has returned the error.
C1_Witness ==
    /\ LastCallIs("chat_completion")
    /\ Unwrap(hcall).messages = <<>>
    /\ Unwrap(hcall).tools = Some(available_tools)
    /\ Hosted(Unwrap(client))
    /\ hret = Some(Err("Messages cannot be empty"))

\* A model name that is empty or made of whitespace only.
IsBlank(model) == \A i \in 1..Len(model) : IsWhitespace(model[i])

\* C2: LLMClient::new on an empty or whitespace-only model name returns the
\* EmptyModelName text in every environment, and no client exists.
C2_BlankModelRejected ==
    (LastCallIs("new") /\ IsBlank(Unwrap(hcall).model))
    => /\ hret = Some(Err(ErrorDisplay("EmptyModelName")))
       /\ client = None

\* C2 witness: new was called on a two-character whitespace name while the
\* credential was set, and returned the error.
C2_Witness ==
    /\ LastCallIs("new")
    /\ Unwrap(hcall).model = <<" ", "\t">>
    /\ env[OPENAI_KEY_VAR] = Some(UnicodeValue(GoodKey))
    /\ hret = Some(Err("Model name cannot be empty"))

HostedModel(model) == model = GPT35 \/ model = GPT4

MissingKeyText ==
    "Missing required variable WAVS_ENV_OPENAI_API_KEY: environment variable not found"

SamplingOf(request) ==
    IF request.uri = OPENAI_URL
    THEN [temperature |-> request.body.temperature,
          top_p |-> request.body.top_p,
          seed |-> request.body.seed]
    ELSE [temperature |-> request.body.options.temperature,
          top_p |-> request.body.options.top_p,
          seed |-> request.body.options.seed]

FixedSampling(request) ==
    [temperature |-> Dec(0, 0),
     top_p |-> IF request.uri = OPENAI_URL THEN Dec(1, 0) ELSE Dec(0, 1),
     seed |-> 42]

\* C4: every request chat_completion has emitted carries temperature 0,
\* seed 42 and the provider's constant top_p, whatever the messages and the
\* tools argument of the call were.
C4_DeterministicSampling ==
    \A i \in 1..Len(sent) : SamplingOf(sent[i]) = FixedSampling(sent[i])

\* C4 witness: two requests of one client were emitted for different message
\* lists and different tools arguments.
C4_Witness ==
    /\ Len(sent) = 2
    /\ sent[1].body.messages # sent[2].body.messages
    /\ "tools" \in DOMAIN sent[1].body
    /\ "tools" \notin DOMAIN sent[2].body

-----------------------------------------------------------------------------
\* Properties of the conversation loop, checked under Spec.

\* The assistant message of the i-th reply, as the JSON the model sent:
\* choices[0].message.
WireAnswer(i) ==
    Unwrap(JField(Unwrap(JField(received[i].body.json, "choices")).arr[1],
                  "message"))

\* Its tool_calls array: empty when the member is missing or null.
WireCalls(i) ==
    LET member == JField(WireAnswer(i), "tool_calls")
    IN  IF member = None \/ JKind(Unwrap(member)) # "arr" THEN <<>>
        ELSE Unwrap(member).arr

\* Its content: empty when the member is missing or null.
WireContent(i) ==
    LET member == JField(WireAnswer(i), "content")
    IN  IF member = None \/ JKind(Unwrap(member)) # "str" THEN ""
        ELSE Unwrap(member).str

WireCallId(call) == Unwrap(JField(call, "id")).str

\* The i-th completion request got an answer chat_completion accepted.
Answered(i) ==
    /\ Len(received) >= i
    /\ chat_completion_response(Unwrap(client), received[i]).ok

Returned(text) ==
    /\ result = Some(text)
    /\ pc = "Done" =>
         ret = Some(Ok(Some(abi_encode(
                    DataWithId(Unwrap(trigger_info).triggerId, Utf8(text))))))

\* C5: the message list of the follow-up request holds exactly one message
\* with tool_calls, carrying the model's calls, and directly after it one
\* message per call of the model's tool_calls array, in the array's order:
\* the i-th has role "tool" and the i-th call's id as tool_call_id; nothing
\* follows them.
C5_ToolResultOrder ==
    Len(sent) = 2 =>
        LET ms == sent[2].body.messages
            calls == WireCalls(1)
            at == {i \in 1..Len(ms) : "tool_calls" \in DOMAIN ms[i]}
            a == CHOOSE i \in at : TRUE
        IN  /\ Cardinality(at) = 1
            /\ ms[a].role = "assistant"
            /\ ms[a].tool_calls = Unwrap(tool_calls)
            /\ Len(Unwrap(tool_calls)) = Len(calls)
            /\ Len(ms) = a + Len(calls)
            /\ \A i \in 1..Len(calls) :
                /\ ms[a + i].role = "tool"
                /\ "tool_call_id" \in DOMAIN ms[a + i]
                /\ ms[a + i].tool_call_id = WireCallId(calls[i])

\* C5 witness: the follow-up request is out after two calls with different
\* ids, the second id coming first in the array.
C5_Witness ==
    /\ Len(sent) = 2
    /\ Len(WireCalls(1)) = 2
    /\ WireCallId(WireCalls(1)[1]) = "call_2"
    /\ WireCallId(WireCalls(1)[2]) = "call_1"

\* C6: once the first answer is accepted and it has no tool_calls member, a
\* null one or an empty array, the loop has returned that answer's content
\* (the empty string for a missing or null content) after one completion
\* request, with nothing in flight and no tool call executed.
C6_NoToolCalls ==
    (Answered(1) /\ WireCalls(1) = <<>>)
    => /\ pc \in {"Encode", "Done"}
       /\ Returned(WireContent(1))
       /\ Len(sent) = 1
       /\ Len(received) = 1
       /\ inflight = <<>>
       /\ executed = <<>>

\* C6 witness: run is done on an answer with an empty tool_calls array and a
\* null content.
C6_Witness ==
    /\ pc = "Done"
    /\ Answered(1)
    /\ JField(WireAnswer(1), "tool_calls") = Some(JArr(<<>>))
    /\ JField(WireAnswer(1), "content") = Some(JNull)
    /\ result = Some("")

\* C7: when the first answer carried tool calls, every one of them executed
\* successfully and the final-round request got an accepted answer, the loop
\* returns exactly that answer's content.
C7_FinalContentReturned ==
    (Answered(1) /\ WireCalls(1) # <<>> /\ Answered(2))
    => /\ pc \in {"Encode", "Done"}
       /\ Returned(WireContent(2))
       /\ executed = Unwrap(tool_calls)
       /\ \A i \in 1..Len(executed) : execute_tool_call(executed[i]).ok

\* C7 witness: one calculator call dividing 24 by 6, the final answer "The
\* result is 4", and run has returned that text.
C7_Witness ==
    /\ pc = "Done"
    /\ Len(executed) = 1
    /\ executed[1].function =
         [name |-> "calculator",
          arguments |-> "{\"operation\":\"divide\",\"a\":24,\"b\":6}"]
    /\ Len(received) = 2
    /\ Unwrap(ret) = Ok(Some(abi_encode(
                        DataWithId(Unwrap(trigger_info).triggerId,
                                   Utf8("The result is 4")))))

IsPrefix(p, q) == Len(p) <= Len(q) /\ \A i \in 1..Len(p) : p[i] = q[i]

Terminated == pc \in {"Done", "Failed"}

\* The steps run has left at most: the rest of the for loop, the follow-up
\* round and the encoding.
StepsLeft ==
    CASE pc = "Decode" -> MaxToolCalls + 7
      [] pc = "Construct" -> MaxToolCalls + 6
      [] pc = "SendFirst" -> MaxToolCalls + 5
      [] pc = "AwaitingModel" -> MaxToolCalls + 4
      [] pc = "ExecutingTools" -> Len(Unwrap(tool_calls)) - next_call + 4
      [] pc = "AwaitingFinal" -> 2
      [] pc = "Encode" -> 1
      [] OTHER -> 0

\* C8: a run issues at most two completion requests; the tool calls it
\* executes are a prefix of the first answer's, so none of the final
\* answer's is executed; after the final answer it is never in
\* ExecutingTools; and it ends, returning a result or an error: until then
\* a step is possible whatever the model answers, and the steps taken and
\* the steps left never exceed the length of the longest run.
C8_SingleToolRound ==
    /\ Len(sent) <= 2
    /\ Len(received) <= 2
    /\ (executed # <<>> => IsPrefix(executed, Unwrap(tool_calls)))
    /\ (Answered(1) => Len(UnwrapOr(tool_calls, <<>>)) = Len(WireCalls(1)))
    /\ (Len(received) = 2 => pc \in {"Encode", "Done", "Failed"})
    /\ (Terminated \/ ENABLED Next)
    /\ StepsLeft >= 0
    /\ steps + StepsLeft <= MaxToolCalls + 7

\* C8 witness: run is done although the final answer asked for a tool call.
C8_Witness ==
    /\ pc = "Done"
    /\ Answered(2)
    /\ WireCalls(2) # <<>>

\* C9: at most one request is in flight, the requests in flight being the
\* sent ones not yet answered; and once the follow-up request is sent, the
\* first answer was received, every tool call of it was executed, and the
\* request's messages are the whole updated history: the initial messages,
\* the assistant message and one tool result per call.
C9_SequentialRounds ==
    /\ Len(inflight) <= 1
    /\ Len(inflight) = Len(sent) - Len(received)
    /\ Len(sent) = 2 =>
        /\ Answered(1)
        /\ executed = Unwrap(tool_calls)
        /\ Len(executed) = Len(WireCalls(1))
        /\ sent[2].body.messages = SerializeMessages(tool_messages)
        /\ Len(tool_messages) = Len(messages) + 1 + Len(executed)
        /\ \A i \in 1..Len(executed) :
            tool_messages[Len(messages) + 1 + i].content =
                Some(execute_tool_call(executed[i]).v)

\* C9 witness: the follow-up request is in flight after two tool calls.
C9_Witness ==
    /\ pc = "AwaitingFinal"
    /\ Len(executed) = 2
    /\ inflight = <<sent[2]>>

\* The stages of the loop that have failed.
ConstructionFailed ==
    /\ IsSome(trigger_info)
    /\ DecodePrompt(Unwrap(trigger_info)).ok
    /\ pc \notin {"Decode", "Construct"}
    /\ ~LLMClient_new(GPT4, env).ok

FirstRequestFailed ==
    \/ /\ IsSome(client)
       /\ pc # "SendFirst"
       /\ ~chat_completion_request(Unwrap(client), messages,
                                   Some(available_tools)).ok
    \/ Len(received) >= 1 /\ ~Answered(1)

ToolExecutionFailed ==
    \E i \in 1..Len(executed) : ~execute_tool_call(executed[i]).ok

FollowUpFailed == Len(received) = 2 /\ ~Answered(2)

\* C10: once client construction, the first completion request, a tool
\* execution or the follow-up request has failed, run has returned an
\* error: there is no result string and no encoded DataWithId.
C10_FailureAborts ==
    (ConstructionFailed \/ FirstRequestFailed \/ ToolExecutionFailed
     \/ FollowUpFailed)
    => /\ pc = "Failed"
       /\ IsSome(ret) /\ ~Unwrap(ret).ok
       /\ result = None

\* C10 witness: the second of two tool calls has failed, after the first
\* one's result was appended.
C10_Witness ==
    /\ Len(executed) = 2
    /\ execute_tool_call(executed[1]).ok
    /\ ~execute_tool_call(executed[2]).ok
    /\ pc = "Failed"

\* The function names of the tool catalog run offers to the model.
CatalogNames ==
    {available_tools[i].function.name : i \in 1..Len(available_tools)}

UnknownToolText(tool_call) == "Unknown tool: " \o tool_call.function.name

\* C11: a tool call naming a tool outside the catalog executes to the
\* successful text "Unknown tool: {name}"; the loop appends that text as the
\* call's tool-result message and goes on: run fails afterwards only on
\* another tool call's error or on the follow-up request, and once the for
\* loop is left without a failure the follow-up request was sent.
C11_UnknownToolContinues ==
    \A i \in 1..Len(executed) :
        executed[i].function.name \notin CatalogNames
        => /\ execute_tool_call(executed[i])
                = Ok(UnknownToolText(executed[i]))
           /\ Len(tool_messages) >= Len(messages) + 1 + i
           /\ tool_messages[Len(messages) + 1 + i]
                = new_tool_result(executed[i].id,
                                  UnknownToolText(executed[i]))
           /\ (pc = "Failed" => (ToolExecutionFailed \/ FollowUpFailed))
           /\ (pc \notin {"ExecutingTools", "Failed"}
               => /\ Len(sent) = 2
                  /\ sent[2].body.messages = SerializeMessages(tool_messages))

\* C11 witness: run is done after a get_weather call was answered with
\* "Unknown tool: get_weather" and the follow-up request was sent.
C11_Witness ==
    /\ pc = "Done"
    /\ Len(executed) = 1
    /\ executed[1].function.name = "get_weather"
    /\ Len(sent) = 2
    /\ tool_messages[Len(tool_messages)].content
         = Some("Unknown tool: get_weather")

-----------------------------------------------------------------------------
\* A caller of the tool executor: handlers::execute_tool_call on one tool
\* call, for every function name and argument text of the input sets.

MalformedTexts ==
    {"", "not json", "{operation: add}", "{\"operation\":\"add\",\"a\":2,"}

ArgumentTexts == {Render(j) : j \in ArgValues} \cup MalformedTexts

ToolNames == {"calculator", "get_weather"}

ToolCallInputs ==
    {ToolCall("call_1", "function", name, arguments) :
        name \in ToolNames, arguments \in ArgumentTexts}

ExecCall(tool_call) == [op |-> "execute_tool_call", tool_call |-> tool_call]

\* handlers::execute_tool_call(&tool_call)
ToolExecute ==
    /\ hpc = "Idle"
    /\ hret = None
    /\ hret' = Some(execute_tool_call(Unwrap(hcall).tool_call))
    /\ hpc' = "Returned"
    /\ UNCHANGED <<env, client, sent, inflight, received, hcall, hreply>>
    /\ UNCHANGED loopVars

InitTools ==
    /\ hcall \in {Some(ExecCall(tool_call)) : tool_call \in ToolCallInputs}
    /\ hpc = "Idle"
    /\ hreply = None
    /\ hret = None
    /\ env = Environment(None, None)
    /\ client = None
    /\ sent = <<>>
    /\ inflight = <<>>
    /\ received = <<>>
    /\ pc = "Unused"
    /\ trigger = Trigger("Raw", TRUE, TRUE, 0, Utf8(Prompt))
    /\ trigger_info = None
    /\ messages = <<>>
    /\ response = None
    /\ tool_calls = None
    /\ tool_messages = <<>>
    /\ next_call = 0
    /\ executed = <<>>
    /\ result = None
    /\ ret = None
    /\ steps = 0

NextTools == ToolExecute

SpecTools == InitTools /\ [][NextTools]_vars

-----------------------------------------------------------------------------
\* Properties of the tool executor, checked under SpecTools.

\* execute_tool_call has returned on a call of this tool and argument text.
ExecutedOn(name, arguments) ==
    /\ hret # None
    /\ Unwrap(hcall).tool_call.function.name = name
    /\ Unwrap(hcall).tool_call.function.arguments = arguments

WellFormedText(op, a, b) == Render(ArgObject(JStr(op), JNum(a), JNum(b)))

\* The calculator's sentence about whole-number operands and a value's text.
Said(a, op, b, value) ==
    "The result of " \o ToString(a) \o " " \o op \o " " \o ToString(b)
    \o " is " \o value

\* The text of the whole number i, a zero being negative when negzero.
WholeText(i, negzero) == IF i = 0 /\ negzero THEN "-0" ELSE ToString(i)

\* The texts of the quotient a / b, b other than 0: of the whole number when
\* b divides a, else of the fraction n/d in lowest terms with n * b = a * d.
QuotientTexts(a, b) ==
    IF Abs(a) % Abs(b) = 0
    THEN {WholeText((Abs(a) \div Abs(b))
                    * (IF (a < 0) # (b < 0) THEN -1 ELSE 1), b < 0)}
    ELSE {FmtF64([n |-> n, d |-> d]) :
            <<n, d>> \in {q \in (-Abs(a)..Abs(a)) \X (2..Abs(b)) :
                            /\ q[1] * b = a * q[2]
                            /\ \A g \in 2..q[2] :
                                 ~(q[2] % g = 0 /\ Abs(q[1]) % g = 0)}}

CalculatorExamples ==
    {<<"add", 2, 3, "The result of 2 add 3 is 5">>,
     <<"subtract", 2, 3, "The result of 2 subtract 3 is -1">>,
     <<"multiply", -2, 3, "The result of -2 multiply 3 is -6">>,
     <<"divide", 24, 6, "The result of 24 divide 6 is 4">>,
     <<"divide", 1, 2, "The result of 1 divide 2 is 0.5">>,
     <<"divide", 3, -2, "The result of 3 divide -2 is -1.5">>}

\* C12: on well-formed arguments {operation, a, b} the calculator answers
\* with the sentence that ends in a + b for add, a - b for subtract, a * b
\* for multiply and a / b for divide; divide by 0 is the error "Division by
\* zero" for every a; any other operation text is the error "Unsupported
\* operation: {operation}"; add 2, 3 ends in 5 and divide 24, 6 in 4.
C12_CalculatorArithmetic ==
    /\ \A op \in OperationTexts, a \in Operands, b \in Operands :
        ExecutedOn("calculator", WellFormedText(op, a, b))
        => CASE op = "add" ->
                  hret = Some(Ok(Said(a, op, b, ToString(a + b))))
             [] op = "subtract" ->
                  hret = Some(Ok(Said(a, op, b, ToString(a - b))))
             [] op = "multiply" ->
                  hret = Some(Ok(Said(a, op, b,
                                      WholeText(a * b, a < 0 \/ b < 0))))
             [] op = "divide" /\ b = 0 ->
                  hret = Some(Err("Division by zero"))
             [] op = "divide" /\ b # 0 ->
                  \E value \in QuotientTexts(a, b) :
                      hret = Some(Ok(Said(a, op, b, value)))
             [] OTHER ->
                  hret = Some(Err("Unsupported operation: " \o op))
    /\ \A e \in CalculatorExamples :
        ExecutedOn("calculator", WellFormedText(e[1], e[2], e[3]))
        => hret = Some(Ok(e[4]))

\* C12 witness: the calculator has answered divide 24, 6.
C12_Witness ==
    /\ ExecutedOn("calculator", WellFormedText("divide", 24, 6))
    /\ hret = Some(Ok("The result of 24 divide 6 is 4"))

\* The last chat_completion call got an HTTP response whose body could be
\* read.
GotResponse ==
    /\ LastCallIs("chat_completion")
    /\ hreply # None
    /\ Unwrap(hreply).kind = "response"
    /\ Unwrap(hreply).body.kind # "read_error"

IsSuccessStatus(status) == status \in 200..299

ReportedAsApiError ==
    hret = Some(Err(ApiErrorText(Unwrap(hreply).status, Unwrap(hreply).body)))

\* C13 as stated: chat_completion returns the API error, with the status and
\* the body of the response, exactly when the status is no 2xx status; a 2xx
\* response is never reported as an API error.
C13_AsStated ==
    GotResponse => (ReportedAsApiError <=> ~IsSuccessStatus(Unwrap(hreply).status))

\* C13, what the code does: the API error is returned exactly when the status
\* is not 200.
C13_ApiErrorUnless200 ==
    GotResponse => (ReportedAsApiError <=> Unwrap(hreply).status # 200)

\* C13 witness: a 201 response with a well-formed answer was reported as an
\* API error.
C13_Witness ==
    /\ GotResponse
    /\ Unwrap(hreply).status = 201
    /\ Unwrap(hreply).body = Choices(<<Choice(SimpleAnswer)>>)
    /\ Hosted(Unwrap(client))
    /\ ReportedAsApiError

\* C14: a request is sent only when every earlier one was answered, each
\* chat_completion call of run having sent at most one; and when a round's
\* reply is a failure (transport error, status other than 200, unreadable or
\* unparsable body) run has failed with no request sent after it and none
\* in flight: the round is not repeated.
C14_NoRetry ==
    /\ Len(sent) <= Len(received) + 1
    /\ Len(sent) <= (IF pc \in {"Decode", "Construct", "SendFirst"} THEN 0
                     ELSE IF pc \in {"AwaitingModel", "ExecutingTools"} THEN 1
                     ELSE 2)
    /\ \A i \in 1..Len(received) :
        ~Answered(i) => /\ Len(sent) = i
                        /\ Len(received) = i
                        /\ inflight = <<>>
                        /\ pc = "Failed"
    /\ (pc = "Failed" => inflight = <<>>)

\* C14 witness: the first request met a transport error and run has failed
\* with that one request sent.
C14_Witness ==
    /\ received = <<TransportError("connection refused")>>
    /\ Len(sent) = 1
    /\ pc = "Failed"
    /\ ret = Some(Err(BlockError("Request failed: connection refused")))

-----------------------------------------------------------------------------
\* The client API with a process environment that changes between calls.

\* The environments of this specification: each variable unset or set to a
\* usable value.
ConfigEnvironments ==
    {Environment(k, b) : k \in {None, Some(UnicodeValue(GoodKey))},
                         b \in {None, Some(UnicodeValue(GoodBase))}}

\* std::env::set_var / remove_var by the embedding process, after the client
\* was constructed and while no call of it is running.
SetEnv ==
    /\ hpc = "Idle"
    /\ client # None
    /\ \E e \in ConfigEnvironments :
        /\ e # env
        /\ env' = e
    /\ UNCHANGED <<client, sent, inflight, received>>
    /\ UNCHANGED harnessVars
    /\ UNCHANGED loopVars

NextConfig ==
    \/ ClientNew
    \/ SetEnv
    \/ ClientChatSend
    \/ ClientChatRecv

InitConfig == InitClient /\ env \in ConfigEnvironments

SpecConfig == InitConfig /\ [][NextConfig]_vars

\* The request is the one the client's own fields give: its endpoint, its
\* credential as the only Authorization header, its model, and the body
\* format of its provider.
RequestOf(c, request) ==
    /\ request.uri = c.api_url
    /\ request.body.model = c.model
    /\ IF IsSome(c.api_key)
       THEN /\ "Authorization" \in DOMAIN request.headers
            /\ request.headers["Authorization"]
                 = "Bearer " \o Unwrap(c.api_key)
            /\ "max_tokens" \in DOMAIN request.body
            /\ "options" \notin DOMAIN request.body
       ELSE /\ "Authorization" \notin DOMAIN request.headers
            /\ "options" \in DOMAIN request.body
            /\ "max_tokens" \notin DOMAIN request.body

\* What the environment now says about the variable a client was built from.
EnvNowGives(c) == LLMClient_new(c.model, env)

\* C15: once constructed, the client is never modified, neither by a change
\* of the environment nor by chat_completion; and every request it sends has
\* the endpoint, the Authorization header and the body format of the
\* client's fields, whatever the environment is when the call is made.
C15_ConfigReadOnce ==
    /\ [](\A i \in 1..Len(sent) : RequestOf(Unwrap(client), sent[i]))
    /\ [][client # None => client' = client]_vars

\* C15 witness: a hosted client's request is in flight with the credential
\* it was constructed with, sent after the credential was removed from the
\* environment.
C15_Witness ==
    /\ hpc = "Awaiting"
    /\ Unwrap(client).api_key = Some(GoodKey)
    /\ env[OPENAI_KEY_VAR] = None
    /\ ~EnvNowGives(Unwrap(client)).ok
    /\ sent[Len(sent)].headers["Authorization"] = "Bearer " \o GoodKey

\* The tool-result message of the i-th executed call has this content.
ToolResultAt(i, content) ==
    /\ Len(tool_messages) >= Len(messages) + 1 + i
    /\ tool_messages[Len(messages) + 1 + i]
         = new_tool_result(executed[i].id, content)

\* C16 as stated: every executed tool call has its tool-result message, in
\* order, holding the execution result or, when the executor failed, the
\* error text.
C16_AsStated ==
    \A i \in 1..Len(executed) :
        LET r == execute_tool_call(executed[i])
        IN  ToolResultAt(i, IF r.ok THEN r.v ELSE r.e)

\* C16 amended: the tool calls are executed in the order of the first
\* response; each call the executor succeeds on gets exactly one tool-result
\* message with the execution result, in that order; the first call it fails
\* on gets none: it is the last one executed, nothing is appended for it,
\* no follow-up request is sent and run returns the error text.
C16_ToolResultsUntilFailure ==
    /\ (executed # <<>> => IsPrefix(executed, Unwrap(tool_calls)))
    /\ \A i \in 1..Len(executed) :
        LET r == execute_tool_call(executed[i])
        IN  IF r.ok
            THEN ToolResultAt(i, r.v)
            ELSE /\ i = Len(executed)
                 /\ Len(tool_messages) = Len(messages) + i
                 /\ Len(sent) = 1
                 /\ pc = "Failed"
                 /\ ret = Some(Err(BlockError(r.e)))
    /\ (executed # <<>>
        => Len(tool_messages) - Len(messages) - 1
             = Cardinality({i \in 1..Len(executed) :
                               execute_tool_call(executed[i]).ok}))

\* C16 witness: the only tool call divides by zero; run has failed with the
\* assistant message as the last one of the follow-up list.
C16_Witness ==
    /\ Len(executed) = 1
    /\ execute_tool_call(executed[1]) = Err("Division by zero")
    /\ Len(tool_messages) = Len(messages) + 1
    /\ ret = Some(Err("Failed to get chat completion: Division by zero"))

\* C17: the follow-up list starts as run's initial list, the system message
\* and then the user message, and every step only appends to it; the list
\* of the follow-up request has the list of the first request as a prefix.
C17_MessagesGrowMonotonically ==
    /\ [](/\ (tool_messages # <<>> => IsPrefix(messages, tool_messages))
          /\ (messages # <<>>
              => /\ Len(messages) = 2
                 /\ messages[1] = new_system(SystemPrompt)
                 /\ messages[2].role = "user")
          /\ (Len(sent) = 2
              => /\ sent[1].body.messages = SerializeMessages(messages)
                 /\ IsPrefix(sent[1].body.messages, sent[2].body.messages)
                 /\ Len(sent[2].body.messages) > Len(sent[1].body.messages)))
    /\ [][/\ IsPrefix(tool_messages, tool_messages')
          /\ (messages # <<>> => messages' = messages)]_vars

\* C17 witness: the follow-up request went out with four messages, the two
\* initial ones first.
C17_Witness ==
    /\ Len(sent) = 2
    /\ Len(sent[2].body.messages) = 4
    /\ sent[2].body.messages[1].role = "system"
    /\ sent[2].body.messages[2].role = "user"
    /\ sent[2].body.messages[2].content = Prompt

\* A tool call of a request equals a tool call of the model's answer: id,
\* type, function name and arguments text.
SameToolCall(call, wire) ==
    LET fn == Unwrap(JField(wire, "function"))
    IN  /\ call.id = Unwrap(JField(wire, "id")).str
        /\ call.type = Unwrap(JField(wire, "type")).str
        /\ call.function.name = Unwrap(JField(fn, "name")).str
        /\ call.function.arguments = Unwrap(JField(fn, "arguments")).str

\* C18: every message with tool_calls in a request of the loop has a
\* content, the content of the model's first answer or the empty string
\* when that was null or missing, and as tool_calls the tool calls of that
\* answer, one for one and in order.
C18_SanitizedAssistantMessage ==
    \A k \in 1..Len(sent) :
        \A i \in 1..Len(sent[k].body.messages) :
            LET m == sent[k].body.messages[i]
            IN  "tool_calls" \in DOMAIN m
                => /\ "content" \in DOMAIN m
                   /\ m.content = WireContent(1)
                   /\ Len(m.tool_calls) = Len(WireCalls(1))
                   /\ \A j \in 1..Len(m.tool_calls) :
                        SameToolCall(m.tool_calls[j], WireCalls(1)[j])

\* C18 witness: the model's answer had a null content and two tool calls;
\* the follow-up request carries it with the empty string as content.
C18_Witness ==
    /\ Len(sent) = 2
    /\ JField(WireAnswer(1), "content") = Some(JNull)
    /\ Len(WireCalls(1)) = 2
    /\ sent[2].body.messages[3].content = ""
    /\ Len(sent[2].body.messages[3].tool_calls) = 2

\* Member k of the arguments value j is a string, respectively a number.
HasString(j, k) ==
    /\ JKind(j) = "obj"
    /\ JField(j, k) # None
    /\ JKind(Unwrap(JField(j, k))) = "str"

HasNumber(j, k) ==
    /\ JKind(j) = "obj"
    /\ JField(j, k) # None
    /\ JKind(Unwrap(JField(j, k))) = "num"

\* The arguments value j lacks operation, a or b, or a or b is no number.
LacksRequired(j) ==
    \/ JKind(j) # "obj"
    \/ \E k \in {"operation", "a", "b"} : JField(j, k) = None
    \/ ~HasNumber(j, "a")
    \/ ~HasNumber(j, "b")

\* The error text for arguments j that lack a required field: that of the
\* first of operation, a and b that is missing or of the wrong type.
MissingText(j) ==
    IF ~HasString(j, "operation") THEN "Missing operation"
    ELSE IF ~HasNumber(j, "a") THEN "Missing parameter a"
    ELSE "Missing parameter b"

\* The arguments text of the executed call is no JSON, or JSON that lacks a
\* required field.
BadArguments ==
    LET text == Unwrap(hcall).tool_call.function.arguments
    IN  \/ text \in MalformedTexts
        \/ \E p \in RenderedArgs : p[1] = text /\ LacksRequired(p[2])

\* C19 as stated: a call of any tool with arguments that are no JSON or lack
\* operation, a or b, or whose a or b is no number, returns an error.
C19_AsStated ==
    (hret # None /\ BadArguments) => ~Unwrap(hret).ok

\* C19: a call of the calculator with arguments that are no JSON returns the
\* error "Failed to parse calculator arguments: " and the parser's message;
\* with JSON arguments that lack operation, a or b, or whose a or b is no
\* number, it returns the error that names the first such field; it returns
\* no result for such a call.
C19_CalculatorArgumentErrors ==
    LET call == Unwrap(hcall).tool_call
        text == call.function.arguments
    IN  (hret # None /\ call.function.name = "calculator")
        => /\ text \in MalformedTexts
                => Unwrap(hret) =
                     Err("Failed to parse calculator arguments: "
                         \o SyntaxErrorText(text))
           /\ \A p \in RenderedArgs :
                (p[1] = text /\ LacksRequired(p[2]))
                    => Unwrap(hret) = Err(MissingText(p[2]))

\* C19 witness: the calculator was called with an operation and a but no b
\* and returned the error about b.
C19_Witness ==
    /\ ExecutedOn("calculator",
                  Render(JObj(<< <<"operation", JStr("add")>>,
                                 <<"a", JNum(2)>> >>)))
    /\ Unwrap(hret) = Err("Missing parameter b")

\* Member k of the object j is left out, null or a string.
OptionalString(j, k) ==
    \/ JField(j, k) = None
    \/ JKind(Unwrap(JField(j, k))) \in {"null", "str"}

\* The JSON value j has the shape of a ToolCall.
ToolCallShaped(j) ==
    /\ HasString(j, "id")
    /\ HasString(j, "type")
    /\ JField(j, "function") # None
    /\ HasString(Unwrap(JField(j, "function")), "name")
    /\ HasString(Unwrap(JField(j, "function")), "arguments")

\* The JSON value j has the shape of a Message.
MessageShaped(j) ==
    /\ HasString(j, "role")
    /\ \A k \in {"content", "tool_call_id", "name"} : OptionalString(j, k)
    /\ \/ JField(j, "tool_calls") = None
       \/ JKind(Unwrap(JField(j, "tool_calls"))) = "null"
       \/ /\ JKind(Unwrap(JField(j, "tool_calls"))) = "arr"
          /\ \A i \in 1..Len(Unwrap(JField(j, "tool_calls")).arr) :
                ToolCallShaped(Unwrap(JField(j, "tool_calls")).arr[i])

\* The body is JSON of the shape {"choices": [{"message": Message}, ...]}.
ChatResponseShaped(body) ==
    /\ body.kind = "json"
    /\ JKind(body.json) = "obj"
    /\ JField(body.json, "choices") # None
    /\ JKind(Unwrap(JField(body.json, "choices"))) = "arr"
    /\ \A i \in 1..Len(Unwrap(JField(body.json, "choices")).arr) :
        LET item == Unwrap(JField(body.json, "choices")).arr[i]
        IN  /\ JKind(item) = "obj"
            /\ JField(item, "message") # None
            /\ MessageShaped(Unwrap(JField(item, "message")))

\* The hosted client got a 200 response whose body was read as text.
HostedSuccessResponse ==
    /\ GotResponse
    /\ hret # None
    /\ Hosted(Unwrap(client))
    /\ Unwrap(hreply).status = HTTP_OK
    /\ Unwrap(hreply).body.kind \in {"json", "text"}

\* The messages serde reports for a body of another shape.
DecodeErrorTexts ==
    {"expected value", "missing field choices", "missing field message",
     "invalid message"}

\* C20: for the hosted provider a 200 response of the expected shape with
\* at least one choice gives the message of the first choice, whatever the
\* later choices hold; with no choice it gives the error "No response
\* choices returned"; a body of another shape gives the error "Failed to
\* parse OpenAI response: " and the decoder's message.
C20_FirstChoiceOrParseError ==
    HostedSuccessResponse =>
        LET body == Unwrap(hreply).body
            r == Unwrap(hret)
        IN  IF ~ChatResponseShaped(body)
            THEN r \in {Err("Failed to parse OpenAI response: " \o e) :
                            e \in DecodeErrorTexts}
            ELSE IF Unwrap(JField(body.json, "choices")).arr = <<>>
            THEN r = Err("No response choices returned")
            ELSE LET first == Unwrap(JField(
                        Unwrap(JField(body.json, "choices")).arr[1],
                        "message"))
                     content == JField(first, "content")
                 IN  /\ r.ok
                     /\ r.v.role = Unwrap(JField(first, "role")).str
                     /\ r.v.content =
                            IF content = None \/ Unwrap(content) = JNull
                            THEN None
                            ELSE Some(Unwrap(content).str)
                     /\ (r.v.tool_calls = None)
                            <=> \/ JField(first, "tool_calls") = None
                                \/ Unwrap(JField(first, "tool_calls")) = JNull

\* C20 witness: the hosted client got two choices and returned the message
\* of the first.
C20_Witness ==
    /\ HostedSuccessResponse
    /\ Unwrap(hreply).body =
            Choices(<<Choice(SimpleAnswer), Choice(DecoyMessage)>>)
    /\ Unwrap(hret).ok
    /\ Unwrap(hret).v.content = Some("ok")

\* C21: the first request of a run carries the tool catalog in its tools
\* field, and every later request of the run, the follow-up after the tools
\* were executed, has no tools field.
C21_ToolsOnlyInFirstRequest ==
    \A k \in 1..Len(sent) :
        IF k = 1
        THEN /\ "tools" \in DOMAIN sent[k].body
             /\ sent[k].body.tools = <<calculator>>
        ELSE "tools" \notin DOMAIN sent[k].body

\* C21 witness: the follow-up request was sent after a tool was executed;
\* it has no tools field and the first request has one.
C21_Witness ==
    /\ Len(sent) = 2
    /\ Len(executed) >= 1
    /\ "tools" \in DOMAIN sent[1].body
    /\ "tools" \notin DOMAIN sent[2].body

\* The token limit of a request: max_tokens of the flat body sent to the
\* hosted endpoint, options.num_predict of the body sent to a local one.
TokenLimitOf(request) ==
    IF request.uri = OPENAI_URL THEN request.body.max_tokens
    ELSE request.body.options.num_predict

\* C22: the token limit of every request is 1024 or 100: 1024 exactly when
\* the request offers tools, 100 exactly when it offers none; a request
\* offers tools exactly when the call had a tools argument, so the request
\* of chat_completion_text, which the loop's follow-up round uses, has 100.
C22_TokenLimitByTools ==
    /\ \A k \in 1..Len(sent) :
        /\ TokenLimitOf(sent[k]) \in {1024, 100}
        /\ TokenLimitOf(sent[k]) = 1024 <=> "tools" \in DOMAIN sent[k].body
        /\ TokenLimitOf(sent[k]) = 100 <=> "tools" \notin DOMAIN sent[k].body
    /\ hpc = "Awaiting"
        => /\ "tools" \in DOMAIN sent[Len(sent)].body
                <=> IsSome(Unwrap(hcall).tools)
           /\ LastCallIs("chat_completion_text")
                => TokenLimitOf(sent[Len(sent)]) = 100

\* C22 witness: a client of the local provider sent a request with tools and
\* limit 1024, and then a chat_completion_text request for a conversation
\* with a tool result, with limit 100.
C22_Witness ==
    /\ Len(sent) = 2
    /\ hpc = "Awaiting"
    /\ LastCallIs("chat_completion_text")
    /\ Unwrap(hcall).messages = ToolTranscript
    /\ sent[1].uri # OPENAI_URL
    /\ sent[1].body.options.num_predict = 1024
    /\ sent[2].body.options.num_predict = 100

-----------------------------------------------------------------------------
\* The adapter of the hosted Anthropic-compatible provider.  The client of
\* llm.rs has the hosted OpenAI-compatible and the local provider only; the
\* client with a Provider argument that llama.rs calls is not among the
\* sources, so this adapter follows the specification (sections 4.1 and 6).

ANTHROPIC_PATH == "/v1/messages"
ANTHROPIC_MODEL == "claude-3-haiku"

\* The contents of the user and assistant turns of msgs, one after the other.
RECURSIVE ConcatTurns(_)
ConcatTurns(msgs) ==
    IF msgs = <<>> THEN ""
    ELSE (IF Head(msgs).role \in {"user", "assistant"}
          THEN UnwrapOr(Head(msgs).content, "")
          ELSE "")
         \o ConcatTurns(Tail(msgs))

\* The system-role message of msgs, if any.
SystemOf(msgs) ==
    LET at == {i \in 1..Len(msgs) : msgs[i].role = "system"}
    IN  IF at = {} THEN None
        ELSE Some(UnwrapOr(msgs[CHOOSE i \in at : \A j \in at : i <= j].content,
                           ""))

\* Faulty variant: the system message stays a turn of the messages array.
AnthropicBodyKeepsSystem(model, msgs) ==
    [model |-> model,
     messages |-> <<[role |-> "system",
                     content |-> UnwrapOr(SystemOf(msgs), "")],
                    [role |-> "user", content |-> ConcatTurns(msgs)]>>,
     max_tokens |-> TokenLimit(None),
     temperature |-> Dec(0, 0),
     top_p |-> Dec(1, 0)]

\* build_request of HostedAnthropicCompatible: the body
\* {model, messages: [{role: "user", content}], system, max_tokens,
\*  temperature, top_p}.
AnthropicBody(model, msgs) ==
    LET system == SystemOf(msgs)
        body == [model |-> model,
                 messages |-> <<[role |-> "user",
                                 content |-> ConcatTurns(msgs)]>>,
                 max_tokens |-> TokenLimit(None),
                 temperature |-> Dec(0, 0),
                 top_p |-> Dec(1, 0)]
    IN  IF IsSome(system) THEN body @@ ("system" :> Unwrap(system)) ELSE body

AnthropicBuildRequest(model, msgs) ==
    [method |-> "POST", path |-> ANTHROPIC_PATH,
     body |-> AnthropicBody(model, msgs)]

\* parse_response of HostedAnthropicCompatible: content[0].text as the
\* content of an assistant message, an error for any other shape.
AnthropicParseResponse(body) ==
    LET content == JField(body.json, "content")
        items == Unwrap(content).arr
    IN  IF body.kind # "json"
        THEN Err("Failed to parse Anthropic response: expected value")
        ELSE IF content = None \/ JKind(Unwrap(content)) # "arr"
        THEN Err("Failed to parse Anthropic response: missing field content")
        ELSE IF \E i \in 1..Len(items) : ~HasString(items[i], "text")
        THEN Err("Failed to parse Anthropic response: missing field text")
        ELSE IF items = <<>> THEN Err("No content in response")
        ELSE Ok(Message("assistant",
                        Some(Unwrap(JField(items[1], "text")).str),
                        None, None, None))

\* The callers' message lists: at most one system message each.
AnthropicMessageLists ==
    {<<new_user(Prompt)>>,
     <<new_system(SystemPrompt), new_user(Prompt)>>,
     <<new_user(Prompt), new_system(SystemPrompt)>>,
     <<new_system(SystemPrompt)>>,
     <<new_system(SystemPrompt), new_user(Prompt),
       Message("assistant", Some("It is 4"), None, None, None),
       new_user("and doubled?")>>,
     <<new_user(Prompt),
       Message("assistant", Some("It is 4"), None, None, None)>>,
     ToolTranscript}

TextBlock(text) == JObj(<< <<"type", JStr("text")>>, <<"text", JStr(text)>> >>)
AnthropicAnswer(items) == JsonBody(JObj(<< <<"content", JArr(items)>> >>))

AnthropicBodies ==
    {AnthropicAnswer(<<TextBlock("It is 4")>>),
     AnthropicAnswer(<<TextBlock("It is 4"), TextBlock("second block")>>),
     AnthropicAnswer(<<>>),
     AnthropicAnswer(<<JObj(<< <<"type", JStr("text")>> >>)>>),
     JsonBody(JObj(<< <<"error", JStr("overloaded")>> >>)),
     TextBody("upstream timeout"),
     Choices(<<Choice(SimpleAnswer)>>)}

BuildCall(msgs) == [op |-> "build_request", messages |-> msgs]
ParseCall(body) == [op |-> "parse_response", body |-> body]

\* build_request(messages, tools, sampling), no tools being offered
AnthropicBuild ==
    /\ hpc = "Idle"
    /\ Len(sent) < MaxRequests
    /\ \E msgs \in AnthropicMessageLists :
        LET req == AnthropicBuildRequest(ANTHROPIC_MODEL, msgs)
        IN  /\ hcall' = Some(BuildCall(msgs))
            /\ hret' = Some(Ok(req))
            /\ sent' = Append(sent, req)
    /\ hreply' = None
    /\ hpc' = "Awaiting"
    /\ UNCHANGED <<env, client, inflight, received>>
    /\ UNCHANGED loopVars

\* parse_response(raw_body)
AnthropicParse ==
    /\ hpc = "Awaiting"
    /\ \E body \in AnthropicBodies :
        /\ hcall' = Some(ParseCall(body))
        /\ hreply' = Some(Response(HTTP_OK, body))
        /\ hret' = Some(AnthropicParseResponse(body))
    /\ hpc' = "Idle"
    /\ UNCHANGED <<env, client, sent, inflight, received>>
    /\ UNCHANGED loopVars

InitAnthropic == InitClient /\ env = Environment(None, None)

NextAnthropic ==
    \/ AnthropicBuild
    \/ AnthropicParse

SpecAnthropic == InitAnthropic /\ [][NextAnthropic]_vars

\* Properties of the Anthropic adapter, checked under SpecAnthropic.

\* C23: the body build_request makes has a messages array of exactly one
\* element, of role user, whose content is the contents of the user and
\* assistant turns in order, and a system field exactly when the list has a
\* system message, holding its content; parse_response returns the text of
\* the first element of content and fails when content is empty.
C23_AnthropicAdapter ==
    /\ \A k \in 1..Len(sent) :
        /\ Len(sent[k].body.messages) = 1
        /\ sent[k].body.messages[1].role = "user"
    /\ LastCallIs("build_request")
        => LET msgs == Unwrap(hcall).messages
               body == sent[Len(sent)].body
               systems == {i \in 1..Len(msgs) : msgs[i].role = "system"}
           IN  /\ "system" \in DOMAIN body <=> systems # {}
               /\ \A i \in systems : body.system = Unwrap(msgs[i].content)
               /\ \A i \in 1..Len(msgs) :
                    (msgs[i].role = "system" /\ Len(msgs) > 1)
                        => body.messages[1].content
                             = ConcatTurns(SubSeq(msgs, 1, i - 1)
                                           \o SubSeq(msgs, i + 1, Len(msgs)))
               /\ systems = {} => body.messages[1].content = ConcatTurns(msgs)
    /\ LastCallIs("parse_response")
        => LET body == Unwrap(hcall).body
               items == Unwrap(JField(body.json, "content")).arr
           IN  (body.kind = "json" /\ JField(body.json, "content") # None)
               => IF items = <<>> THEN ~Unwrap(hret).ok
                  ELSE HasString(items[1], "text")
                       => /\ Unwrap(hret).ok
                          /\ Unwrap(hret).v.content
                                = Some(Unwrap(JField(items[1], "text")).str)

\* C23 witness: a list of a system message and three turns was built into
\* one user turn with the system field, and an answer of two blocks was
\* parsed to the text of the first.
C23_Witness ==
    /\ LastCallIs("parse_response")
    /\ Len(sent) = 1
    /\ "system" \in DOMAIN sent[1].body
    /\ sent[1].body.system = SystemPrompt
    /\ sent[1].body.messages
         = <<[role |-> "user",
              content |-> Prompt \o "It is 4" \o "and doubled?"]>>
    /\ Unwrap(hcall).body
         = AnthropicAnswer(<<TextBlock("It is 4"), TextBlock("second block")>>)
    /\ Unwrap(hret) = Ok(Message("assistant", Some("It is 4"), None, None, None))

-----------------------------------------------------------------------------
\* Provider consistency, checked under SpecClient.

\* The request has the flat body and the bearer header of the key.
HostedForm(request, key) ==
    /\ "max_tokens" \in DOMAIN request.body
    /\ "options" \notin DOMAIN request.body
    /\ "Authorization" \in DOMAIN request.headers
    /\ request.headers["Authorization"] = "Bearer " \o key

\* The request has the body with options and no Authorization header.
LocalForm(request) ==
    /\ "options" \in DOMAIN request.body
    /\ "max_tokens" \notin DOMAIN request.body
    /\ "Authorization" \notin DOMAIN request.headers

\* The last call got a 200 response with this body.
AnsweredWith(body) ==
    /\ LastCallIs("chat_completion")
    /\ hreply # None
    /\ Unwrap(hreply) = Response(HTTP_OK, body)

\* C24: a constructed client has a credential exactly when its model is
\* "gpt-3.5-turbo" or "gpt-4", and exactly then its endpoint is the hosted
\* URL; every request goes to the client's endpoint, in the hosted form for
\* a client with a credential and in the local form for one without; an
\* answer in the choices shape is accepted by the former only, an answer in
\* the message shape by the latter only.
C24_ProviderConsistency ==
    client # None =>
        LET c == Unwrap(client)
        IN  /\ IsSome(c.api_key) <=> c.model \in {GPT35, GPT4}
            /\ IsSome(c.api_key) <=> c.api_url = OPENAI_URL
            /\ \A k \in 1..Len(sent) :
                /\ sent[k].uri = c.api_url
                /\ IF sent[k].uri = OPENAI_URL
                   THEN IsSome(c.api_key)
                        /\ HostedForm(sent[k], Unwrap(c.api_key))
                   ELSE LocalForm(sent[k])
            /\ AnsweredWith(Choices(<<Choice(SimpleAnswer)>>))
                => (Unwrap(hret).ok <=> IsSome(c.api_key))
            /\ AnsweredWith(OllamaAnswer(SimpleAnswer))
                => (Unwrap(hret).ok <=> ~IsSome(c.api_key))

\* C24 witness: with a credential in the environment, a client for the model
\* " gpt-4" sent a request to the local endpoint, without the credential,
\* and accepted an answer in the message shape.
C24_Witness ==
    /\ client # None
    /\ Unwrap(client).model = <<" ">> \o GPT4
    /\ env_var(OPENAI_KEY_VAR, env).ok
    /\ Len(sent) = 1
    /\ sent[1].uri # OPENAI_URL
    /\ "Authorization" \notin DOMAIN sent[1].headers
    /\ AnsweredWith(OllamaAnswer(SimpleAnswer))
    /\ Unwrap(hret).ok

-----------------------------------------------------------------------------
\* The trigger identifier, checked under Spec.

\* The identifier of the trigger as decoded: 0 for a Raw trigger.
DecodedTriggerId ==
    IF trigger.kind = "Raw" THEN 0 ELSE trigger.triggerId

\* C25: whenever run has returned a result, the bytes it returned decode to
\* the identifier of the decoded trigger, 0 for a Raw trigger, and to the
\* bytes of the loop's result string; and from the decoding of the trigger
\* on no step changes the decoded trigger.
C25_TriggerIdPassThrough ==
    /\ [](((ret # None /\ Unwrap(ret).ok)
            => /\ pc = "Done"
               /\ result # None
               /\ Unwrap(ret).v # None
               /\ abi_decode(Unwrap(Unwrap(ret).v)).triggerId
                    = DecodedTriggerId
               /\ abi_decode(Unwrap(Unwrap(ret).v)).data
                    = Utf8(Unwrap(result)))
           /\ (trigger_info # None
                => Unwrap(trigger_info).triggerId = DecodedTriggerId))
    /\ [][trigger_info # None => trigger_info' = trigger_info]_vars

\* C25 witness: a contract event with the identifier 7 was answered after a
\* tool round, and the returned bytes carry 7 and the final answer.
C25_Witness ==
    /\ pc = "Done"
    /\ trigger.kind = "EthContractEvent"
    /\ trigger.triggerId = 7
    /\ Len(sent) = 2
    /\ Unwrap(Unwrap(ret).v)[2] = 7
    /\ Unwrap(Unwrap(ret).v)[5] = Utf8(Unwrap(result))

====
